---------------------------- MODULE Spec2Model ----------------------------
(***************************************************************************)
(* Verification model of the bridge SDK's route orchestration core:        *)
(*   - the execution-status transition relation (core/capabilities.ts),    *)
(*   - the polling monitor (core/monitor/polling),                         *)
(*   - the route registry and the bridge client's adapter cache            *)
(*     (core/protocol/router, core/client),                                *)
(*   - prove / execute on the Base -> SVM route (route adapter and the     *)
(*     Solana engine).                                                     *)
(* Each component has its own specification over the shared variables; a   *)
(* component that a specification does not drive stays in its initial      *)
(* state.                                                                  *)
(***************************************************************************)
EXTENDS Integers, Sequences, FiniteSets, TLC

VARIABLES
    now,        \* Date.now(), in ms
    m_pc,       \* where the pollingMonitor generator is
    m_opts,     \* the MonitorOptions it was called with
    m_start,    \* const start = Date.now()
    m_prev,     \* let prev: ExecutionStatus | undefined
    m_prevKey,  \* let prevKey: string | undefined
    m_next,     \* const next = await getStatus()
    m_callAt,   \* when the getStatus() in flight was called
    m_probes,   \* history: every status getStatus() has returned
    m_yielded,  \* history: every status the stream has yielded
    tr_from,    \* isAllowedTransition: argument `from`
    tr_to,      \* isAllowedTransition: argument `to`
    tr_allowed, \* isAllowedTransition: the value returned
    rt_route,   \* supportsBridgeRoute: argument `route`
    rt_supported,     \* supportsBridgeRoute: the value returned
    c_cache,          \* DefaultBridgeClient.adapterCache
    c_resolverCalls,  \* history: calls of resolveBridgeRoute, per route key
    c_slots,          \* the client calls in progress or just finished
    p_incoming,       \* Solana: the incoming-message account of each hash
    p_baseBlock,      \* Solana: bridge.baseBlockNumber
    p_proveTxs,       \* history: proveMessage transactions sent, per hash
    p_relayTxs,       \* history: relayMessage transactions sent, per hash
    p_calls,          \* Base -> SVM adapter: prove / execute calls
    e_successes,      \* Base bridge: successes(outerHash)
    e_failures,       \* Base bridge: failures(outerHash)
    e_valid,          \* bridge validator: validMessages(outerHash)
    e_relayTxs,       \* history: relayMessages transactions sent
    x_call,           \* BaseEngine.executeMessage: the call in progress
    s_outgoing,       \* Solana: the outgoing-message accounts that exist
    s_nonce,          \* Solana: bridge.nonce, given to the next message
    i_txs,            \* history: initiation transactions sent
    i_n,              \* history: initiate calls made
    i_prev,           \* the initiate call before the last one
    i_call,           \* the last initiate call
    h_outgoing,       \* message identity: the outgoing-message account
    h_gasLimit,       \* message identity: the gas limit
    h_helper,         \* the value of buildEvmIncomingMessage
    h_engine,         \* the value of BaseEngine.buildEvmMessage
    g_proof,          \* the last call of BaseEngine.generateProof
    g_extract,        \* the last call of extractMessageInitiated
    k_config,         \* createBridgeClient: the chain ids of config.chains' adapters
    k_result,         \* createBridgeClient: the error thrown or the client made
    r_other,          \* the locals of the monitor stream that is not running
    r_live,           \* which of the two monitor streams m_pc .. m_yielded hold
    w_defaults,       \* the client's defaults?.relay
    w_op,             \* the entry point called: transfer, call or request
    w_input,          \* its argument
    w_handed,         \* the request it handed to adapter.initiate
    v_ref,            \* the Base -> SVM MessageRef that is monitored
    y_call,           \* the monitorMessageExecution call
    q_cache,          \* keypairSignerCache: path -> signer instance (0: no entry)
    q_loads,          \* history: key-file reads per path
    q_sets,           \* history: keypairSignerCache.set calls per path
    q_made,           \* signer instances created so far
    q_calls,          \* the getKeypairSignerFromPath call of each caller
    u_outgoing,       \* the outgoing message account an initiate created
    u_ref,            \* the MessageRef that initiate returned
    u_paid,           \* gasLimit of the pay-for-relay instruction (0: none)
    u_exec,           \* the adapter's execute call
    a_ix              \* the relayMessage instruction handleExecuteMessage built last

monVars == <<now, m_pc, m_opts, m_start, m_prev, m_prevKey, m_next, m_callAt,
             m_probes, m_yielded>>
trVars == <<tr_from, tr_to, tr_allowed>>
rtVars == <<rt_route, rt_supported>>
clientVars == <<c_cache, c_resolverCalls, c_slots>>
proveVars == <<p_incoming, p_baseBlock, p_proveTxs, p_relayTxs, p_calls>>
execVars == <<e_successes, e_failures, e_valid, e_relayTxs, x_call>>
initVars == <<s_outgoing, s_nonce, i_txs, i_n, i_prev, i_call>>
hashVars == <<h_outgoing, h_gasLimit, h_helper, h_engine>>
genVars == <<g_proof, g_extract>>
ctorVars == <<k_config, k_result>>
streamVars == <<r_other, r_live>>
wrapVars == <<w_defaults, w_op, w_input, w_handed>>
refVars == <<v_ref>>
mexVars == <<y_call>>
signerVars == <<q_cache, q_loads, q_sets, q_made, q_calls>>
gasVars == <<u_outgoing, u_ref, u_paid, u_exec>>
ixVars == <<a_ix>>
restVars == <<genVars, ctorVars, streamVars, wrapVars, refVars, mexVars,
             signerVars,
             gasVars,
             ixVars>>
vars == <<monVars, trVars, rtVars, clientVars, proveVars, execVars, initVars,
          hashVars, restVars>>

-----------------------------------------------------------------------------
(* Bounds of the model.                                                    *)

\* A nested instruction of a call message names at most this many accounts.
MaxIxAccounts == 2

\* Each caller asks for a keypair signer at most this many times.
MaxSignerCalls == 2

\* getStatus() is called at most this many times in one stream.
MaxProbes == 3

\* Client calls that may be in progress at the same time.
MaxInFlight == 2

\* The Base block height recorded on Solana goes up to this.
MaxBlock == 3

\* Calls of executeMessage made one after the other.
MaxExecuteCalls == 2

\* Calls of initiate made one after the other.
MaxInitiates == 2

\* The adapters given to createBridgeClient are at most this many.
MaxAdapters == 3

-----------------------------------------------------------------------------
(* Execution statuses (core/types.ts) and their helpers.                   *)

\* An optional field that is absent.
Undefined == "undefined"

StatusTypes ==
    {"Unknown", "Initiated", "FinalizedOnSource", "Proven", "Executable",
     "Executing", "Executed", "Failed", "Expired"}

\* Values of the optional transaction / finality field of a status.
OptTx == {Undefined, "a"}
\* Values of Expired's optional reason; Failed's reason is required.
Reasons == {"r"}

\* A status is [type, tx, reason, at]: tx stands for sourceTx,
\* sourceFinality, proofTx or executionTx, whichever the variant carries.
Status(type, tx, reason, at) ==
    [type |-> type, tx |-> tx, reason |-> reason, at |-> at]

\* The statuses a probe may return at time `at`.
StatusesAt(at) ==
    {Status(t, Undefined, Undefined, at) : t \in {"Unknown", "Executable"}}
    \cup {Status(t, x, Undefined, at) :
            t \in {"Initiated", "FinalizedOnSource", "Proven", "Executing",
                   "Executed"},
            x \in OptTx}
    \cup {Status("Failed", x, r, at) : x \in OptTx, r \in Reasons}
    \cup {Status("Expired", Undefined, r, at) : r \in Reasons \cup {Undefined}}

\* `prev` before the first yield.
NoStatus == Status("undefined", Undefined, Undefined, 0)

\* x ?? ""
OrEmpty(x) == IF x = Undefined THEN "" ELSE x

\* Mutant of isTerminalStatus: Expired is forgotten.
isTerminalStatus_NoExpired(s) == s.type = "Executed" \/ s.type = "Failed"

isTerminalStatus(s) ==
    s.type = "Executed" \/ s.type = "Failed" \/ s.type = "Expired"

\* Mutant of isAllowedTransition: Unknown may jump straight to Executed.
isAllowedTransition_UnknownToExecuted(from, to) ==
    \/ from = to
    \/ to \in {"Failed", "Expired"}
    \/ <<from, to>> \in
         {<<"Unknown", "Initiated">>, <<"Unknown", "Executed">>,
          <<"Initiated", "FinalizedOnSource">>, <<"Initiated", "Executable">>,
          <<"FinalizedOnSource", "Proven">>, <<"FinalizedOnSource", "Executable">>,
          <<"Proven", "Executable">>, <<"Executable", "Executing">>,
          <<"Executable", "Executed">>, <<"Executing", "Executed">>}

isAllowedTransition(from, to) ==
    IF from = to THEN TRUE
    ELSE IF to = "Failed" \/ to = "Expired" THEN TRUE
    ELSE CASE from = "Unknown" -> to = "Initiated"
           [] from = "Initiated" -> to = "FinalizedOnSource" \/ to = "Executable"
           [] from = "FinalizedOnSource" -> to = "Proven" \/ to = "Executable"
           [] from = "Proven" -> to = "Executable"
           [] from = "Executable" -> to = "Executing" \/ to = "Executed"
           [] from = "Executing" -> to = "Executed"
           [] from = "Executed" -> FALSE
           [] from = "Failed" -> FALSE
           [] from = "Expired" -> FALSE

\* Mutant of stableStatusKey: the timestamp is part of the key.
stableStatusKey_WithTimestamp(s) ==
    s.type \o ":" \o OrEmpty(s.tx) \o ":" \o OrEmpty(s.reason) \o "@" \o ToString(s.at)

stableStatusKey(s) ==
    CASE s.type = "Unknown" -> "Unknown"
      [] s.type = "Initiated" -> "Initiated:" \o OrEmpty(s.tx)
      [] s.type = "FinalizedOnSource" -> "FinalizedOnSource:" \o OrEmpty(s.tx)
      [] s.type = "Proven" -> "Proven:" \o OrEmpty(s.tx)
      [] s.type = "Executable" -> "Executable"
      [] s.type = "Executing" -> "Executing:" \o OrEmpty(s.tx)
      [] s.type = "Executed" -> "Executed:" \o OrEmpty(s.tx)
      [] s.type = "Failed" -> "Failed:" \o s.reason \o ":" \o OrEmpty(s.tx)
      [] s.type = "Expired" -> "Expired:" \o OrEmpty(s.reason)

-----------------------------------------------------------------------------
(* isAllowedTransition applied to arbitrary arguments.                     *)

InitTransition ==
    /\ tr_from = "Unknown"
    /\ tr_to = "Unknown"
    /\ tr_allowed = isAllowedTransition("Unknown", "Unknown")

EvalTransition(from, to) ==
    /\ tr_from' = from
    /\ tr_to' = to
    /\ tr_allowed' = isAllowedTransition(from, to)
    /\ UNCHANGED <<monVars, rtVars, clientVars, proveVars, execVars, initVars, hashVars, restVars>>

-----------------------------------------------------------------------------
(* pollingMonitor.                                                         *)

DEFAULT_TIMEOUT_MS == 60000
DEFAULT_POLL_INTERVAL_MS == 5000

\* MonitorOptions: `given` holds the names of the fields that are present;
\* a field that is absent reads as undefined whatever its slot holds.
MonitorOptions(given, timeoutMs, pollIntervalMs) ==
    [given |-> given, timeoutMs |-> timeoutMs, pollIntervalMs |-> pollIntervalMs]

\* The options the streams of the model are called with.
MonitorOptionChoices ==
    {MonitorOptions({}, 0, 0),
     MonitorOptions({"timeoutMs"}, 12000, 0),
     MonitorOptions({"timeoutMs", "pollIntervalMs"}, 12000, 4000)}

\* How long one getStatus() call may take, in ms.
ProbeLatencies == {0, 30000}

\* How long after the call the consumer first pulls, in ms.
StartDelays == {0, 7000}

\* opts.timeoutMs ?? 60_000
TimeoutMs(opts) ==
    IF "timeoutMs" \in opts.given THEN opts.timeoutMs ELSE DEFAULT_TIMEOUT_MS

\* opts.pollIntervalMs ?? 5_000
PollIntervalMs(opts) ==
    IF "pollIntervalMs" \in opts.given THEN opts.pollIntervalMs
    ELSE DEFAULT_POLL_INTERVAL_MS

\* Mutant of TimedOut: the operands of the subtraction are swapped.
TimedOut_Swapped(start, tnow, timeoutMs) == start - tnow > timeoutMs

\* Date.now() - start > timeoutMs
TimedOut(start, tnow, timeoutMs) == tnow - start > timeoutMs

\* Mutant of IllegalTransition: a stream that has yielded nothing is taken
\* to stand at Unknown.
IllegalTransition_FromUnknown(prev, next) ==
    ~isAllowedTransition(IF prev = NoStatus THEN "Unknown" ELSE prev.type, next.type)

\* Mutant of IllegalTransition: no transition is checked.
IllegalTransition_Never(prev, next) == FALSE

\* prev && !isAllowedTransition(prev.type, next.type)
IllegalTransition(prev, next) ==
    prev # NoStatus /\ ~isAllowedTransition(prev.type, next.type)

\* Mutant of KeyChanged: every poll is yielded.
KeyChanged_Always(prevKey, nextKey) == TRUE

\* prevKey !== nextKey
KeyChanged(prevKey, nextKey) == prevKey # nextKey

NoOptions == MonitorOptions({}, 0, 0)

InitMonitor ==
    /\ now = 0
    /\ m_pc = "none"
    /\ m_opts = NoOptions
    /\ m_start = 0
    /\ m_prev = NoStatus
    /\ m_prevKey = Undefined
    /\ m_next = NoStatus
    /\ m_callAt = 0
    /\ m_probes = <<>>
    /\ m_yielded = <<>>

\* pollingMonitor(getStatus, opts) is called: an async generator is returned
\* and none of its body has run.
MonitorCall(opts) ==
    /\ m_pc = "none"
    /\ m_pc' = "created"
    /\ m_opts' = opts
    /\ UNCHANGED <<now, m_start, m_prev, m_prevKey, m_next, m_callAt, m_probes,
                   m_yielded, trVars, rtVars, clientVars, proveVars, execVars, initVars, hashVars, restVars>>

\* The top of the while loop at time tnow: raise Timeout, or call getStatus().
EnterLoop(start, tnow) ==
    IF TimedOut(start, tnow, TimeoutMs(m_opts))
    THEN m_pc' = "timeout" /\ m_callAt' = m_callAt
    ELSE m_pc' = "probing" /\ m_callAt' = tnow

\* The model follows a stream for MaxProbes calls of getStatus().
MayEnterLoop(start, tnow) ==
    TimedOut(start, tnow, TimeoutMs(m_opts)) \/ Len(m_probes) < MaxProbes

\* The consumer pulls for the first time, `delay` ms after the call: the body
\* runs up to its first await.
MonitorStart(delay) ==
    /\ m_pc = "created"
    /\ now' = now + delay
    /\ MayEnterLoop(now', now')
    /\ m_start' = now'
    /\ EnterLoop(now', now')
    /\ UNCHANGED <<m_opts, m_prev, m_prevKey, m_next, m_probes, m_yielded, trVars, rtVars, clientVars, proveVars, execVars, initVars, hashVars, restVars>>

\* What follows the yield block: return on a terminal status, else sleep.
AfterYieldBlock(next) ==
    m_pc' = IF isTerminalStatus(next) THEN "done" ELSE "sleeping"

\* getStatus() resolves after `latency` ms with the status `observed`,
\* stamped with the time it resolves at.
ProbeReturn(observed, latency) ==
    /\ m_pc = "probing"
    /\ now' = now + latency
    /\ LET st == [observed EXCEPT !.at = now'] IN
       /\ m_next' = st
       /\ m_probes' = Append(m_probes, [st |-> st, called |-> m_callAt, returned |-> now'])
       /\ IF IllegalTransition(m_prev, st)
          THEN m_pc' = "invariant" /\ UNCHANGED m_yielded
          ELSE IF KeyChanged(m_prevKey, stableStatusKey(st))
               THEN /\ m_pc' = "yielded"
                    /\ m_yielded' = Append(m_yielded, [st |-> st, t |-> now'])
               ELSE AfterYieldBlock(st) /\ UNCHANGED m_yielded
    /\ UNCHANGED <<m_opts, m_start, m_prev, m_prevKey, m_callAt, trVars, rtVars, clientVars, proveVars, execVars, initVars, hashVars, restVars>>

\* Mutant of ProbeThrow: the rejection is swallowed and the poll retried.
ProbeThrow_Retried(latency) ==
    /\ m_pc = "probing"
    /\ now' = now + latency
    /\ m_pc' = "sleeping"
    /\ UNCHANGED <<m_opts, m_start, m_prev, m_prevKey, m_next, m_callAt, m_probes,
                   m_yielded, trVars, rtVars, clientVars, proveVars, execVars,
                   initVars, hashVars, restVars>>

\* getStatus() rejects: the await throws inside the generator.
ProbeThrow(latency) ==
    /\ m_pc = "probing"
    /\ now' = now + latency
    /\ m_pc' = "probeError"
    /\ UNCHANGED <<m_opts, m_start, m_prev, m_prevKey, m_next, m_callAt, m_probes,
                   m_yielded, trVars, rtVars, clientVars, proveVars, execVars, initVars, hashVars, restVars>>

\* The consumer pulls again after a yield: the generator resumes.
ConsumerPull ==
    /\ m_pc = "yielded"
    /\ m_prevKey' = stableStatusKey(m_next)
    /\ m_prev' = m_next
    /\ AfterYieldBlock(m_next)
    /\ UNCHANGED <<now, m_opts, m_start, m_next, m_callAt, m_probes, m_yielded,
                   trVars, rtVars, clientVars, proveVars, execVars, initVars, hashVars, restVars>>

\* sleep(pollIntervalMs) is over: back to the top of the loop.
SleepDone ==
    /\ m_pc = "sleeping"
    /\ now' = now + PollIntervalMs(m_opts)
    /\ MayEnterLoop(m_start, now')
    /\ EnterLoop(m_start, now')
    /\ UNCHANGED <<m_opts, m_start, m_prev, m_prevKey, m_next, m_probes, m_yielded,
                   trVars, rtVars, clientVars, proveVars, execVars, initVars, hashVars, restVars>>

-----------------------------------------------------------------------------
(* Route registry (core/protocol/router).                                  *)

\* Chain ids are CAIP-2 strings, <namespace>:<reference>.
ChainRefs == {"8453", "84532", "10", "mainnet", "devnet", "hub"}

ChainIds ==
    {"eip155:8453", "eip155:84532", "eip155:10", "eip155:1",
     "solana:mainnet", "solana:devnet", "cosmos:hub"}

\* id.startsWith(prefix), for the ids of the model.
StartsWith(id, prefix) == \E ref \in ChainRefs : id = prefix \o ref

Route(src, dst) == [sourceChain |-> src, destinationChain |-> dst]

Routes == {Route(src, dst) : src \in ChainIds, dst \in ChainIds}

isSolanaChainId(id) == StartsWith(id, "solana:")

isEip155ChainId(id) == StartsWith(id, "eip155:")

isBaseEvmChainId(id) == id = "eip155:8453" \/ id = "eip155:84532"

\* Mutant of supportsBridgeRoute: the hub check is dropped.
supportsBridgeRoute_NoHubCheck(route) ==
    \/ isSolanaChainId(route.sourceChain) /\ isEip155ChainId(route.destinationChain)
    \/ isEip155ChainId(route.sourceChain) /\ isSolanaChainId(route.destinationChain)

supportsBridgeRoute(route) ==
    LET includesBase ==
            \/ isBaseEvmChainId(route.sourceChain)
            \/ isBaseEvmChainId(route.destinationChain)
    IN IF ~includesBase THEN FALSE
       ELSE \/ /\ isSolanaChainId(route.sourceChain)
               /\ isEip155ChainId(route.destinationChain)
            \/ /\ isEip155ChainId(route.sourceChain)
               /\ isSolanaChainId(route.destinationChain)

InitRouteCheck ==
    /\ rt_route = Route("solana:mainnet", "eip155:8453")
    /\ rt_supported = supportsBridgeRoute(Route("solana:mainnet", "eip155:8453"))

EvalSupportsBridgeRoute(route) ==
    /\ rt_route' = route
    /\ rt_supported' = supportsBridgeRoute(route)
    /\ UNCHANGED <<monVars, trVars, clientVars, proveVars, execVars, initVars, hashVars, restVars>>

-----------------------------------------------------------------------------
(* Bridge client (core/client): the configuration of the modelled client.  *)

\* The chain ids the client's callers use.
ClientChainIds == {"eip155:8453", "eip155:84532", "eip155:10", "solana:mainnet"}

ClientRoutes == {Route(src, dst) : src \in ClientChainIds, dst \in ClientChainIds}

\* config.chains: the kind of the adapter registered for a chain id, "none"
\* when there is none.  Base Sepolia has no adapter here.
ChainAdapterKind(id) ==
    CASE id = "solana:mainnet" -> "solana"
      [] id = "eip155:8453" -> "evm"
      [] id = "eip155:10" -> "evm"
      [] OTHER -> "none"

\* The deployments bundled with the SDK; no overrides are given.
SolanaDeployments == {"solana:mainnet"}
BaseDeployments == {"eip155:8453"}

UnsupportedRoute == "UnsupportedRoute"

\* The adapter class resolveBridgeRoute constructs, or the error it throws.
resolveBridgeRoute(route) ==
    LET src == route.sourceChain
        dst == route.destinationChain
    IN IF ChainAdapterKind(src) = "none" \/ ChainAdapterKind(dst) = "none"
       THEN UnsupportedRoute
       ELSE IF isSolanaChainId(src) /\ isEip155ChainId(dst)
       THEN IF ChainAdapterKind(src) # "solana" \/ ChainAdapterKind(dst) # "evm"
            THEN UnsupportedRoute
            ELSE IF src \notin SolanaDeployments \/ dst \notin BaseDeployments
            THEN UnsupportedRoute
            ELSE "SvmToBaseRouteAdapter"
       ELSE IF isEip155ChainId(src) /\ isSolanaChainId(dst)
       THEN IF ChainAdapterKind(dst) # "solana" \/ ChainAdapterKind(src) # "evm"
            THEN UnsupportedRoute
            ELSE IF dst \notin SolanaDeployments \/ src \notin BaseDeployments
            THEN UnsupportedRoute
            ELSE "BaseToSvmRouteAdapter"
       ELSE UnsupportedRoute

routeKey(route) == route.sourceChain \o "->" \o route.destinationChain

RouteKeys == {routeKey(r) : r \in ClientRoutes}

ClientOps ==
    {"transfer", "call", "request", "prove", "execute", "status", "monitor",
     "capabilities", "resolveRoute"}

\* The RouteAdapter method a client operation ends in.
AdapterMethod(op) ==
    IF op \in {"transfer", "call", "request"} THEN "initiate" ELSE op

\* A Promise<RouteAdapter>: the inst-th one resolveBridgeRoute returned for
\* its key, resolved with an adapter or rejected.
NoPromise == [inst |-> 0, settled |-> "none", adapter |-> "none"]

\* Mutant of CacheGet: the lookup always misses.
CacheGet_Miss(cache, key) == NoPromise

\* this.adapterCache.get(key)
CacheGet(cache, key) == cache[key]

\* Mutant of getRouteAdapter: a cached promise that was rejected counts as
\* a miss and the route is resolved again.
getRouteAdapter_RetryRejected(route, cache, calls) ==
    IF ~supportsBridgeRoute(route)
    THEN [threw |-> TRUE, promise |-> NoPromise, cache |-> cache, calls |-> calls]
    ELSE LET key == routeKey(route)
             existing == CacheGet(cache, key)
             made == resolveBridgeRoute(route)
             created ==
                 [inst |-> calls[key] + 1,
                  settled |-> IF made = UnsupportedRoute THEN "rejected" ELSE "resolved",
                  adapter |-> IF made = UnsupportedRoute THEN "none" ELSE made]
         IN IF existing # NoPromise /\ existing.settled # "rejected"
            THEN [threw |-> FALSE, promise |-> existing, cache |-> cache,
                  calls |-> calls]
            ELSE [threw |-> FALSE, promise |-> created,
                  cache |-> [cache EXCEPT ![key] = created],
                  calls |-> [calls EXCEPT ![key] = calls[key] + 1]]

\* getRouteAdapter(route) on a client whose cache is `cache`: whether it
\* threw, the promise it returned, and the cache and the count of resolver
\* calls it leaves.
getRouteAdapter(route, cache, calls) ==
    IF ~supportsBridgeRoute(route)
    THEN [threw |-> TRUE, promise |-> NoPromise, cache |-> cache, calls |-> calls]
    ELSE LET key == routeKey(route)
             existing == CacheGet(cache, key)
             made == resolveBridgeRoute(route)
             created ==
                 [inst |-> calls[key] + 1,
                  settled |-> IF made = UnsupportedRoute THEN "rejected" ELSE "resolved",
                  adapter |-> IF made = UnsupportedRoute THEN "none" ELSE made]
         IN IF existing # NoPromise
            THEN [threw |-> FALSE, promise |-> existing, cache |-> cache,
                  calls |-> calls]
            ELSE [threw |-> FALSE, promise |-> created,
                  cache |-> [cache EXCEPT ![key] = created],
                  calls |-> [calls EXCEPT ![key] = calls[key] + 1]]

\* A client call: the operation, its route (the MessageRef's route for prove,
\* execute, status and monitor), where it is, how it ended, the promise it
\* awaits or awaited, and the adapter method it invoked.
Slot(op, route, pc, result, promise, method) ==
    [op |-> op, route |-> route, pc |-> pc, result |-> result,
     promise |-> promise, method |-> method]

FreeSlot == Slot("none", Route("", ""), "free", "none", NoPromise, "none")

SlotIds == 1..MaxInFlight

InitClient ==
    /\ c_cache = [key \in RouteKeys |-> NoPromise]
    /\ c_resolverCalls = [key \in RouteKeys |-> 0]
    /\ c_slots = [s \in SlotIds |-> FreeSlot]

\* An async method body from its start to `await this.getRouteAdapter(route)`.
RunToAwait(s, op, route) ==
    LET got == getRouteAdapter(route, c_cache, c_resolverCalls)
    IN /\ c_cache' = got.cache
       /\ c_resolverCalls' = got.calls
       /\ c_slots' =
            [c_slots EXCEPT ![s] =
                IF got.threw
                THEN Slot(op, route, "failed", UnsupportedRoute, NoPromise, "none")
                ELSE Slot(op, route, "awaiting", "none", got.promise, "none")]

\* Mutant of Invoke: resolveRoute also asks the registry for the adapter.
Invoke_ResolveRouteResolves(s, op, route) ==
    /\ c_slots[s].pc \in {"free", "done", "failed"}
    /\ CASE op = "monitor" ->
              /\ c_slots' = [c_slots EXCEPT ![s] =
                    Slot(op, route, "created", "none", NoPromise, "none")]
              /\ UNCHANGED <<c_cache, c_resolverCalls>>
         [] op = "resolveRoute" ->
              /\ c_slots' = [c_slots EXCEPT ![s] =
                    IF ~supportsBridgeRoute(route)
                       \/ resolveBridgeRoute(route) = UnsupportedRoute
                    THEN Slot(op, route, "failed", UnsupportedRoute, NoPromise, "none")
                    ELSE Slot(op, route, "done", "route", NoPromise, "none")]
              /\ UNCHANGED <<c_cache, c_resolverCalls>>
         [] OTHER -> RunToAwait(s, op, route)
    /\ UNCHANGED <<monVars, trVars, rtVars, proveVars, execVars, initVars, hashVars, restVars>>

\* A caller invokes client.<op> with `route`.  monitor returns a generator
\* whose body has not started; resolveRoute only checks the route; transfer
\* and call run into request at once.
Invoke(s, op, route) ==
    /\ c_slots[s].pc \in {"free", "done", "failed"}
    /\ CASE op = "monitor" ->
              /\ c_slots' = [c_slots EXCEPT ![s] =
                    Slot(op, route, "created", "none", NoPromise, "none")]
              /\ UNCHANGED <<c_cache, c_resolverCalls>>
         [] op = "resolveRoute" ->
              /\ c_slots' = [c_slots EXCEPT ![s] =
                    IF ~supportsBridgeRoute(route)
                    THEN Slot(op, route, "failed", UnsupportedRoute, NoPromise, "none")
                    ELSE Slot(op, route, "done", "route", NoPromise, "none")]
              /\ UNCHANGED <<c_cache, c_resolverCalls>>
         [] OTHER -> RunToAwait(s, op, route)
    /\ UNCHANGED <<monVars, trVars, rtVars, proveVars, execVars, initVars, hashVars, restVars>>

\* The consumer of a monitor generator pulls for the first time.
Pull(s) ==
    /\ c_slots[s].pc = "created"
    /\ RunToAwait(s, c_slots[s].op, c_slots[s].route)
    /\ UNCHANGED <<monVars, trVars, rtVars, proveVars, execVars, initVars, hashVars, restVars>>

\* The awaited promise settles: a rejection is raised in the caller; else the
\* adapter's method is invoked and ends with `outcome`.
Resume(s, outcome) ==
    /\ c_slots[s].pc = "awaiting"
    /\ LET c == c_slots[s] IN
       IF c.promise.settled = "rejected"
       THEN /\ outcome = "ok"
            /\ c_slots' = [c_slots EXCEPT ![s] =
                  Slot(c.op, c.route, "failed", UnsupportedRoute, c.promise, "none")]
       ELSE c_slots' = [c_slots EXCEPT ![s] =
                  Slot(c.op, c.route, IF outcome = "ok" THEN "done" ELSE "failed",
                       outcome, c.promise, AdapterMethod(c.op))]
    /\ UNCHANGED <<c_cache, c_resolverCalls, monVars, trVars, rtVars, proveVars, execVars, initVars, hashVars, restVars>>

\* The operations and routes of the concurrent callers.
ConcurrentOps == {"status", "monitor"}
ConcurrentRoutes == {r \in ClientRoutes : supportsBridgeRoute(r)}

-----------------------------------------------------------------------------
(* Base -> SVM route: prove and execute (route adapter, BaseEngine         *)
(* generateProof, SolanaEngine handleProveMessage / handleExecuteMessage). *)

\* Message hashes, and the Base transactions a MessageRef may point at.
MessageHashes == {"h1", "h2"}
TxHashes == {"0xtx1", "0xtx2", "0xmulti", "0xnone", "0xreverted"}

Log(blockNumber, eventName, messageHash) ==
    [blockNumber |-> blockNumber, eventName |-> eventName,
     messageHash |-> messageHash]

\* getTransactionReceipt({hash}): the receipts of the model's transactions,
\* all mined in Base block 2.
Receipt(txHash) ==
    CASE txHash = "0xtx1" ->
           [status |-> "success", logs |-> <<Log(2, "MessageInitiated", "h1")>>]
      [] txHash = "0xtx2" ->
           [status |-> "success",
            logs |-> <<Log(2, "Transfer", ""), Log(2, "MessageInitiated", "h2")>>]
      [] txHash = "0xmulti" ->
           [status |-> "success",
            logs |-> <<Log(2, "MessageInitiated", "h1"),
                       Log(2, "MessageInitiated", "h2")>>]
      [] txHash = "0xnone" ->
           [status |-> "success", logs |-> <<Log(2, "Transfer", "")>>]
      [] txHash = "0xreverted" ->
           [status |-> "reverted", logs |-> <<>>]

NoEvent == Log(0, "none", "")

\* BaseEngine.generateProof(transactionHash, blockNumber): the error thrown
\* ("" when none) and the event returned.
generateProof(txHash, blockNumber) ==
    LET receipt == Receipt(txHash)
        logs == receipt.logs
        inits == {i \in 1..Len(logs) : logs[i].eventName = "MessageInitiated"}
    IN IF receipt.status # "success"
       THEN [error |-> "Transaction reverted", event |-> NoEvent]
       ELSE IF \E i \in 1..Len(logs) : blockNumber < logs[i].blockNumber
       THEN [error |-> "Solana bridge state is stale", event |-> NoEvent]
       ELSE IF Cardinality(inits) = 0
       THEN [error |-> "No MessageInitiated event found in transaction",
             event |-> NoEvent]
       ELSE IF Cardinality(inits) > 1
       THEN [error |-> "Multiple MessageInitiated events found (unsupported)",
             event |-> NoEvent]
       ELSE [error |-> "", event |-> logs[CHOOSE i \in inits : TRUE]]

\* ProveOptions: sourceBlockNumber may be absent.
ProveOptionChoices ==
    {[given |-> {}, sourceBlockNumber |-> 0],
     [given |-> {"sourceBlockNumber"}, sourceBlockNumber |-> 1],
     [given |-> {"sourceBlockNumber"}, sourceBlockNumber |-> 2]}

\* opts?.sourceBlockNumber ?? (await this.solanaEngine.getLatestBaseBlockNumber())
ProveBlockNumber(opts, baseBlock) ==
    IF "sourceBlockNumber" \in opts.given THEN opts.sourceBlockNumber ELSE baseBlock

\* A transaction signature: the n-th transaction of its kind for a hash.
Signature(kind, messageHash, n) == [kind |-> kind, messageHash |-> messageHash, n |-> n]

NoSignature == Signature("none", "", 0)

\* The message of the error sendAndConfirmTransaction throws for a
\* transaction the program rejected.
TransactionFailed == "Transaction failed"

\* Mutant of IncomingExists: only an executed message counts as present.
IncomingExists_OnlyExecuted(account) == account = "executed"

\* maybeMessage.exists, for the account state fetchMaybeIncomingMessage read.
IncomingExists(account) == account # "absent"

\* incomingMessage.data.executed
IncomingExecuted(account) == account = "executed"

\* A prove or execute call on the adapter: its input (the ref's derived
\* txHash, or the ref's source id), the hash it works on, where it is, the
\* account state its fetch read ("unread" before), how it ended, and the
\* number of transactions it has handed to buildAndSendTransaction.
AdapterCall(op, input, hash, pc, fetched, error, signature) ==
    [op |-> op, input |-> input, messageHash |-> hash, pc |-> pc,
     fetched |-> fetched, error |-> error, signature |-> signature, sent |-> 0]

\* The parties that call prove and execute for the same messages: the
\* application that sent them and a relayer.
Callers == {"app", "relayer"}

NoCall == AdapterCall("none", "", "", "free", "unread", "", NoSignature)

InitProve ==
    /\ p_incoming = [h \in MessageHashes |-> "absent"]
    /\ p_baseBlock = 1
    /\ p_proveTxs = [h \in MessageHashes |-> 0]
    /\ p_relayTxs = [h \in MessageHashes |-> 0]
    /\ p_calls = [s \in Callers |-> NoCall]

\* The Base block height recorded in the Solana bridge account advances.
AdvanceBaseBlock ==
    /\ p_baseBlock < MaxBlock
    /\ p_baseBlock' = p_baseBlock + 1
    /\ UNCHANGED <<p_incoming, p_proveTxs, p_relayTxs, p_calls, monVars, trVars,
                   rtVars, clientVars, execVars, initVars, hashVars, restVars>>

\* adapter.prove(ref, opts) up to the call of handleProveMessage: the
\* txHash check, the block number, BaseEngine.generateProof.
ProveBegin(s, txHash, opts) ==
    /\ p_calls[s].pc \in {"free", "done", "failed"}
    /\ LET blockNumber == ProveBlockNumber(opts, p_baseBlock)
           proof == generateProof(txHash, blockNumber)
       IN p_calls' = [p_calls EXCEPT ![s] =
            IF txHash = Undefined
            THEN AdapterCall("prove", txHash, "", "failed", "unread",
                             "ProofNotAvailable", NoSignature)
            ELSE IF proof.error # ""
            THEN AdapterCall("prove", txHash, "", "failed", "unread",
                             proof.error, NoSignature)
            ELSE AdapterCall("prove", txHash, proof.event.messageHash, "fetching",
                             "unread", "", NoSignature)]
    /\ UNCHANGED <<p_incoming, p_baseBlock, p_proveTxs, p_relayTxs, monVars, trVars,
                   rtVars, clientVars, execVars, initVars, hashVars, restVars>>

\* handleProveMessage: fetchMaybeIncomingMessage answers.  An account that
\* exists ends the call: the engine returns {messageHash}, the adapter
\* {messageRef}.
ProveFetch(s) ==
    /\ p_calls[s].op = "prove"
    /\ p_calls[s].pc = "fetching"
    /\ LET c == p_calls[s]
           account == p_incoming[c.messageHash]
       IN p_calls' = [p_calls EXCEPT ![s] =
            [c EXCEPT !.fetched = account,
                      !.pc = IF IncomingExists(account) THEN "done" ELSE "sending"]]
    /\ UNCHANGED <<p_incoming, p_baseBlock, p_proveTxs, p_relayTxs, monVars, trVars,
                   rtVars, clientVars, execVars, initVars, hashVars, restVars>>

\* Mutant of ProveSend: the existence check and the submission are one
\* step, so a call that lost the race returns without a transaction.
ProveSend_Atomic(s) ==
    /\ p_calls[s].op = "prove"
    /\ p_calls[s].pc = "sending"
    /\ LET c == p_calls[s]
           h == c.messageHash
           n == p_proveTxs[h] + 1
       IN IF p_incoming[h] = "absent"
          THEN /\ p_proveTxs' = [p_proveTxs EXCEPT ![h] = n]
               /\ p_incoming' = [p_incoming EXCEPT ![h] = "proven"]
               /\ p_calls' = [p_calls EXCEPT ![s] =
                     [c EXCEPT !.pc = "done", !.sent = 1,
                               !.signature = Signature("prove", h, n)]]
          ELSE /\ p_calls' = [p_calls EXCEPT ![s] = [c EXCEPT !.pc = "done"]]
               /\ UNCHANGED <<p_incoming, p_proveTxs>>
    /\ UNCHANGED <<p_baseBlock, p_relayTxs, monVars, trVars, rtVars, clientVars, execVars, initVars, hashVars, restVars>>

\* handleProveMessage: buildAndSendTransaction([proveMessage]).  The program
\* creates the incoming-message account; it fails when the account exists.
ProveSend(s) ==
    /\ p_calls[s].op = "prove"
    /\ p_calls[s].pc = "sending"
    /\ LET c == p_calls[s]
           h == c.messageHash
           n == p_proveTxs[h] + 1
       IN /\ p_proveTxs' = [p_proveTxs EXCEPT ![h] = n]
          /\ IF p_incoming[h] = "absent"
             THEN /\ p_incoming' = [p_incoming EXCEPT ![h] = "proven"]
                  /\ p_calls' = [p_calls EXCEPT ![s] =
                       [c EXCEPT !.pc = "done", !.sent = 1,
                                 !.signature = Signature("prove", h, n)]]
             ELSE /\ p_calls' = [p_calls EXCEPT ![s] =
                       [c EXCEPT !.pc = "failed", !.sent = 1,
                                 !.error = TransactionFailed]]
                  /\ UNCHANGED p_incoming
    /\ UNCHANGED <<p_baseBlock, p_relayTxs, monVars, trVars, rtVars, clientVars, execVars, initVars, hashVars, restVars>>

\* The id schemes a MessageRef's source may carry.
SourceIds ==
    {[scheme |-> "evm:messageHash", value |-> h] : h \in MessageHashes}
    \cup {[scheme |-> "evm:txHash", value |-> "0xtx1"]}

\* adapter.execute(ref) up to the call of handleExecuteMessage.
ExecuteBegin(s, sourceId) ==
    /\ p_calls[s].pc \in {"free", "done", "failed"}
    /\ p_calls' = [p_calls EXCEPT ![s] =
         IF sourceId.scheme # "evm:messageHash"
         THEN AdapterCall("execute", sourceId.value, "", "failed", "unread",
                          "UnsupportedAction", NoSignature)
         ELSE AdapterCall("execute", sourceId.value, sourceId.value, "fetching",
                          "unread", "", NoSignature)]
    /\ UNCHANGED <<p_incoming, p_baseBlock, p_proveTxs, p_relayTxs, monVars, trVars,
                   rtVars, clientVars, execVars, initVars, hashVars, restVars>>

\* The messages of the errors handleExecuteMessage throws (the account
\* address in the first is left out).
MessageNotFound == "Message not found. Ensure it has been proven on Solana first."
MessageAlreadyExecuted == "Message has already been executed"

\* msg.includes(needle), for the messages and the needles of the model.
Includes(msg, needle) ==
    \/ msg = MessageNotFound /\ needle = "Ensure it has been proven"
    \/ msg = MessageAlreadyExecuted /\ needle = "already been executed"

\* Mutant of ExecuteError: the two needles are swapped.
ExecuteError_Swapped(msg) ==
    IF Includes(msg, "Ensure it has been proven") THEN "AlreadyExecuted"
    ELSE IF Includes(msg, "already been executed") THEN "NotProven"
    ELSE msg

\* adapter.execute, catch block: the error thrown for an engine error.
ExecuteError(msg) ==
    IF Includes(msg, "already been executed") THEN "AlreadyExecuted"
    ELSE IF Includes(msg, "Ensure it has been proven") THEN "NotProven"
    ELSE msg

\* Mutant of ExecuteReady: the executed flag is not looked at.
ExecuteReady_IgnoresExecuted(account) ==
    IF ~IncomingExists(account) THEN MessageNotFound ELSE ""

\* handleExecuteMessage: the error thrown for the account state the fetch
\* read, "" when the message can be relayed.
ExecuteReady(account) ==
    IF ~IncomingExists(account) THEN MessageNotFound
    ELSE IF IncomingExecuted(account) THEN MessageAlreadyExecuted
    ELSE ""

\* handleExecuteMessage: fetchMaybeIncomingMessage answers.  The engine's
\* errors are re-tagged by the adapter from their messages.
ExecuteFetch(s) ==
    /\ p_calls[s].op = "execute"
    /\ p_calls[s].pc = "fetching"
    /\ LET c == p_calls[s]
           account == p_incoming[c.messageHash]
       IN p_calls' = [p_calls EXCEPT ![s] =
            IF ExecuteReady(account) # ""
            THEN [c EXCEPT !.fetched = account, !.pc = "failed",
                           !.error = ExecuteError(ExecuteReady(account))]
            ELSE [c EXCEPT !.fetched = account, !.pc = "sending"]]
    /\ UNCHANGED <<p_incoming, p_baseBlock, p_proveTxs, p_relayTxs, monVars, trVars,
                   rtVars, clientVars, execVars, initVars, hashVars, restVars>>

\* handleExecuteMessage: buildAndSendTransaction([relayMessage]).  The
\* program marks the message executed; it fails when it already is.
ExecuteSend(s) ==
    /\ p_calls[s].op = "execute"
    /\ p_calls[s].pc = "sending"
    /\ LET c == p_calls[s]
           h == c.messageHash
           n == p_relayTxs[h] + 1
       IN /\ p_relayTxs' = [p_relayTxs EXCEPT ![h] = n]
          /\ IF p_incoming[h] = "proven"
             THEN /\ p_incoming' = [p_incoming EXCEPT ![h] = "executed"]
                  /\ p_calls' = [p_calls EXCEPT ![s] =
                       [c EXCEPT !.pc = "done", !.sent = 1,
                                 !.signature = Signature("relay", h, n)]]
             ELSE /\ p_calls' = [p_calls EXCEPT ![s] =
                       [c EXCEPT !.pc = "failed", !.sent = 1,
                                 !.error = ExecuteError(TransactionFailed)]]
                  /\ UNCHANGED p_incoming
    /\ UNCHANGED <<p_baseBlock, p_proveTxs, monVars, trVars, rtVars, clientVars, execVars, initVars, hashVars, restVars>>

-----------------------------------------------------------------------------
(* SVM -> Base execution (BaseEngine.executeMessage, waitForApproval).     *)

DEFAULT_MONITOR_TIMEOUT_MS == 60000
DEFAULT_MONITOR_POLL_INTERVAL_MS == 5000

\* waitForApproval: const maxInterval
MAX_APPROVAL_INTERVAL_MS == 30000
DEFAULT_EVM_GAS_LIMIT == 100000

\* The outer hash buildEvmMessage computes for the message of the model.
OuterHash == "0xab12"

\* The values the contract's getMessageHash(evmMessage) may answer: the
\* same hash, the same hash in upper-case hex digits, another hash.
ContractHashes == {"0xab12", "0xAB12", "0xcd34"}

\* sanitizeHex(h): h.toLowerCase(), for the hashes of the model.
sanitizeHex(h) == IF h = "0xAB12" THEN "0xab12" ELSE h

\* The options of executeMessage: each field may be absent.
ExecuteMessageOptions(given, timeoutMs, pollIntervalMs) ==
    [given |-> given, timeoutMs |-> timeoutMs, pollIntervalMs |-> pollIntervalMs]

ExecuteMessageOptionChoices ==
    {ExecuteMessageOptions({}, 0, 0),
     ExecuteMessageOptions({"timeoutMs", "pollIntervalMs"}, 20000, 4000),
     ExecuteMessageOptions({"timeoutMs"}, 120000, 0)}

\* waitForApproval(messageHash, timeoutMs = DEFAULT_MONITOR_TIMEOUT_MS, ...)
ApprovalTimeoutMs(opts) ==
    IF "timeoutMs" \in opts.given THEN opts.timeoutMs ELSE DEFAULT_MONITOR_TIMEOUT_MS

\* waitForApproval(..., intervalMs = DEFAULT_MONITOR_POLL_INTERVAL_MS)
ApprovalIntervalMs(opts) ==
    IF "pollIntervalMs" \in opts.given THEN opts.pollIntervalMs
    ELSE DEFAULT_MONITOR_POLL_INTERVAL_MS

Min(a, b) == IF a <= b THEN a ELSE b

\* Mutant of NextApprovalInterval: the interval grows without a cap.
NextApprovalInterval_Uncapped(currentInterval) == (currentInterval * 3) \div 2

\* Math.min(Math.floor(currentInterval * 1.5), maxInterval)
NextApprovalInterval(currentInterval) ==
    Min((currentInterval * 3) \div 2, MAX_APPROVAL_INTERVAL_MS)

\* while (Date.now() - start <= timeoutMs)
ApprovalInTime(start, tnow, timeoutMs) == tnow - start <= timeoutMs

\* What the multicall of executeMessage read.
MulticallResult(successes, failures, messageHash) ==
    [successes |-> successes, failures |-> failures, messageHash |-> messageHash]

NoRead == MulticallResult(FALSE, FALSE, "")

\* new Error(message): an error of the built-in class, with no code.
Error(message) == [name |-> "Error", message |-> message]

NoError == [name |-> "", message |-> ""]

\* The errors executeMessage and waitForApproval throw.
ErrNoWallet == Error("Base wallet client not initialized (missing privateKey)")
ErrPreviouslyFailed == Error("Message previously failed execution on Base")
ErrHashMismatch == Error("Hash mismatch: getMessageHash != expected")
ErrApprovalTimeout == Error("Timed out waiting for BridgeValidator approval")

\* Mutant of ExecuteMessageCheck: failures is looked at before successes.
ExecuteMessageCheck_FailuresFirst(read) ==
    IF read.failures THEN [go |-> "throw", error |-> ErrPreviouslyFailed]
    ELSE IF read.successes THEN [go |-> "return", error |-> NoError]
    ELSE IF sanitizeHex(read.messageHash) # sanitizeHex(OuterHash)
    THEN [go |-> "throw", error |-> ErrHashMismatch]
    ELSE [go |-> "wait", error |-> NoError]

\* executeMessage, after the multicall: "return" (the outer hash), "throw"
\* with the error thrown, or "wait" (go on to waitForApproval).
ExecuteMessageCheck(read) ==
    IF read.successes THEN [go |-> "return", error |-> NoError]
    ELSE IF read.failures THEN [go |-> "throw", error |-> ErrPreviouslyFailed]
    ELSE IF sanitizeHex(read.messageHash) # sanitizeHex(OuterHash)
    THEN [go |-> "throw", error |-> ErrHashMismatch]
    ELSE [go |-> "wait", error |-> NoError]

\* A call of executeMessage: its number, whether the engine has a wallet
\* client and a private key, the bridge's flags when it was made, where it
\* is, its options, what its multicall read, the approval loop's start and current interval, the validMessages
\* answers and the sleeps so far, the relayMessages transactions it sent,
\* and how it ended.
ExecuteMessageCall(n, hasWallet, onCall, pc, opts, read, start, interval, polls, waits, sent, result, error) ==
    [n |-> n, hasWallet |-> hasWallet, onCall |-> onCall, pc |-> pc,
     opts |-> opts, read |-> read, start |-> start,
     interval |-> interval, polls |-> polls, waits |-> waits, sent |-> sent,
     result |-> result, error |-> error]

NoExecuteMessageCall ==
    ExecuteMessageCall(0, FALSE, NoRead, "idle", ExecuteMessageOptions({}, 0, 0),
                       NoRead, 0, 0, <<>>, <<>>, 0, "", NoError)

RelayTx(n) == "0xrelay" \o ToString(n)

InitExecute ==
    /\ e_successes = FALSE
    /\ e_failures = FALSE
    /\ e_valid = FALSE
    /\ e_relayTxs = 0
    /\ x_call = NoExecuteMessageCall

execFrame == <<m_pc, m_opts, m_start, m_prev, m_prevKey, m_next, m_callAt,
               m_probes, m_yielded, trVars, rtVars, clientVars, proveVars,
               initVars, hashVars, restVars>>

\* The bridge validator registers the message.
ValidatorApproves ==
    /\ ~e_valid
    /\ e_valid' = TRUE
    /\ UNCHANGED <<now, e_successes, e_failures, e_relayTxs, x_call, execFrame>>

\* The bridge runs the approved message, relayed by this engine or by the
\* relayer: it records a success, or a failure that a later run may
\* turn into a success.
BridgeRecords(outcome, keepFailure) ==
    /\ e_valid
    /\ ~e_successes
    /\ IF outcome = "success"
       THEN e_successes' = TRUE /\ e_failures' = (e_failures /\ keepFailure)
       ELSE e_failures' = TRUE /\ UNCHANGED e_successes
    /\ UNCHANGED <<now, e_valid, e_relayTxs, x_call, execFrame>>

\* executeMessage(outgoing, options) up to waitForApproval: the wallet
\* check, buildEvmMessage, the multicall and the three checks on it.
ExecuteMessage(hasWallet, opts, messageHash) ==
    /\ x_call.pc \in {"idle", "done", "failed"}
    /\ x_call.n < MaxExecuteCalls
    /\ LET read == MulticallResult(e_successes, e_failures, messageHash)
           check == ExecuteMessageCheck(read)
           begun == ExecuteMessageCall(x_call.n + 1, hasWallet, read, "polling",
                                       opts, read, now, ApprovalIntervalMs(opts),
                                       <<>>, <<>>, 0, "", NoError)
       IN x_call' =
            IF ~hasWallet
            THEN [begun EXCEPT !.pc = "failed", !.read = NoRead,
                               !.error = ErrNoWallet]
            ELSE IF check.go = "return"
            THEN [begun EXCEPT !.pc = "done", !.result = OuterHash]
            ELSE IF check.go = "wait"
            THEN begun
            ELSE [begun EXCEPT !.pc = "failed", !.error = check.error]
    /\ UNCHANGED <<now, e_successes, e_failures, e_valid, e_relayTxs, execFrame>>

\* waitForApproval: the loop condition and one validMessages read.
ApprovalPoll ==
    /\ x_call.pc = "polling"
    /\ x_call' =
         IF ~ApprovalInTime(x_call.start, now, ApprovalTimeoutMs(x_call.opts))
         THEN [x_call EXCEPT !.pc = "failed", !.error = ErrApprovalTimeout]
         ELSE [x_call EXCEPT
                 !.polls = Append(@, [at |-> now, approved |-> e_valid]),
                 !.pc = IF e_valid THEN "writing" ELSE "sleeping"]
    /\ UNCHANGED <<now, e_successes, e_failures, e_valid, e_relayTxs, execFrame>>

\* waitForApproval: sleep(currentInterval) is over; the interval grows.
ApprovalSleepDone ==
    /\ x_call.pc = "sleeping"
    /\ now' = now + x_call.interval
    /\ x_call' = [x_call EXCEPT !.pc = "polling",
                                !.waits = Append(@, x_call.interval),
                                !.interval = NextApprovalInterval(@)]
    /\ UNCHANGED <<e_successes, e_failures, e_valid, e_relayTxs, execFrame>>

\* executeMessage: walletClient.writeContract(relayMessages([evmMessage])).
RelayMessages ==
    /\ x_call.pc = "writing"
    /\ e_relayTxs' = e_relayTxs + 1
    /\ x_call' = [x_call EXCEPT !.pc = "done", !.sent = @ + 1,
                                !.result = RelayTx(e_relayTxs + 1)]
    /\ UNCHANGED <<now, e_successes, e_failures, e_valid, execFrame>>

-----------------------------------------------------------------------------
(* Message identity (core/protocol/identity, core/protocol/encoding,       *)
(* BaseEngine.buildEvmMessage).  Bytes are written as strings of hex       *)
(* digits, hex values as "0x" and the digits, ABI encodings and hashes as  *)
(* the text of the call that makes them.                                   *)

\* toHex(bytes)
toHex(bytes) == "0x" \o bytes

\* keccak256(hex): a hex value that names its preimage.
keccak256(hex) == "0xkeccak(" \o hex \o ")"

\* encodeAbiParameters of two, three and four values.
encodeAbi2(a, b) == "0xabi(" \o a \o "," \o b \o ")"
encodeAbi3(a, b, c) == "0xabi(" \o a \o "," \o b \o "," \o c \o ")"
encodeAbi4(a, b, c, d) == "0xabi(" \o a \o "," \o b \o "," \o c \o "," \o d \o ")"

\* getBase58Encoder().encode(address): the 32 bytes of a Solana address.
Base58Bytes(address) == "b58:" \o address

\* The Solana addresses and the EVM addresses (20 bytes) of the model.
SolAddresses == {"Sender1", "Sender2"}
OutgoingAddresses == {"Outgoing1", "Outgoing2"}
EvmAddressBytes == {"1111", "2222"}

\* A Call of the bridge program, and the absent call of a transfer.
Call(ty, to, value, data) == [ty |-> ty, to |-> to, value |-> value, data |-> data]

Calls == {Call(0, "1111", 0, "d09de08a"), Call(1, "2222", 5, "")}

NoneCall == Call(0, "", 0, "none")

\* The message of an outgoing-message account: a Call, or a Transfer with an
\* optional call.
OutgoingCall(call) ==
    [kind |-> "Call", call |-> call, remoteToken |-> "", localToken |-> "",
     to |-> "", amount |-> 0]

OutgoingTransfer(remoteToken, localToken, to, amount, call) ==
    [kind |-> "Transfer", call |-> call, remoteToken |-> remoteToken,
     localToken |-> localToken, to |-> to, amount |-> amount]

OutgoingMessages ==
    {OutgoingCall(call) : call \in Calls}
    \cup {OutgoingTransfer("1111", "Sender2", "2222", 7, call) :
            call \in Calls \cup {NoneCall}}

\* Account<OutgoingMessage>: the address and the data of the account.
OutgoingAccount(address, nonce, sender, message) ==
    [address |-> address, nonce |-> nonce, sender |-> sender, message |-> message]

OutgoingAccounts ==
    {OutgoingAccount(address, nonce, sender, message) :
        address \in OutgoingAddresses, nonce \in {0, 1, 42}, sender \in SolAddresses,
        message \in OutgoingMessages}

GasLimits == {100000, 123456}

BASE_MARKETS_MESSAGE_TYPE == [Call |-> 0, Transfer |-> 1, TransferAndCall |-> 2]

MessageType == [Call |-> 0, Transfer |-> 1, TransferAndCall |-> 2]

\* encoding: bytes32FromSolanaPubkey(pubkey); the bytes of an address are 32,
\* so nothing is padded.
bytes32FromSolanaPubkey(pubkey) == toHex(Base58Bytes(pubkey))

\* encoding: encodeCallData(call)
encodeCallData(call) ==
    encodeAbi4(ToString(call.ty), toHex(call.to), ToString(call.value),
               toHex(call.data))

\* encoding: the transfer tuple, ABI-encoded.
EncodeTransferTuple(msg) ==
    encodeAbi4(toHex(msg.remoteToken), bytes32FromSolanaPubkey(msg.localToken),
               toHex(msg.to) \o "<pad-right>", ToString(msg.amount))

\* Mutant of encodeOutgoingMessagePayload: a transfer with a call is typed as
\* a plain transfer.
encodeOutgoingMessagePayload_NoTransferAndCall(msg) ==
    IF msg.kind = "Call"
    THEN [ty |-> BASE_MARKETS_MESSAGE_TYPE.Call, data |-> encodeCallData(msg.call)]
    ELSE IF msg.call = NoneCall
    THEN [ty |-> BASE_MARKETS_MESSAGE_TYPE.Transfer, data |-> EncodeTransferTuple(msg)]
    ELSE [ty |-> BASE_MARKETS_MESSAGE_TYPE.Transfer,
          data |-> encodeAbi2(EncodeTransferTuple(msg), encodeCallData(msg.call))]

\* encoding: encodeOutgoingMessagePayload(msg)
encodeOutgoingMessagePayload(msg) ==
    IF msg.kind = "Call"
    THEN [ty |-> BASE_MARKETS_MESSAGE_TYPE.Call, data |-> encodeCallData(msg.call)]
    ELSE IF msg.call = NoneCall
    THEN [ty |-> BASE_MARKETS_MESSAGE_TYPE.Transfer, data |-> EncodeTransferTuple(msg)]
    ELSE [ty |-> BASE_MARKETS_MESSAGE_TYPE.TransferAndCall,
          data |-> encodeAbi2(EncodeTransferTuple(msg), encodeCallData(msg.call))]

\* encoding: outgoingMessagePubkeyBytes32(outgoing)
outgoingMessagePubkeyBytes32(outgoing) == "0x" \o Base58Bytes(outgoing.address)

\* What both builders return.
EvmIncoming(innerHash, outerHash, pubkey, gasLimit, nonce, sender, ty, data) ==
    [innerHash |-> innerHash, outerHash |-> outerHash,
     evmMessage |-> [outgoingMessagePubkey |-> pubkey, gasLimit |-> gasLimit,
                     nonce |-> nonce, sender |-> sender, ty |-> ty, data |-> data]]

\* identity: buildEvmIncomingMessage(outgoing, {gasLimit})
buildEvmIncomingMessage(outgoing, gasLimit) ==
    LET nonce == outgoing.nonce
        sender == bytes32FromSolanaPubkey(outgoing.sender)
        payload == encodeOutgoingMessagePayload(outgoing.message)
        outgoingMessagePubkey == outgoingMessagePubkeyBytes32(outgoing)
        innerHash == keccak256(encodeAbi3(sender, ToString(payload.ty), payload.data))
        outerHash == keccak256(encodeAbi3(ToString(nonce), outgoingMessagePubkey,
                                          innerHash))
    IN EvmIncoming(innerHash, outerHash, outgoingMessagePubkey, gasLimit, nonce,
                   sender, payload.ty, payload.data)

\* BaseEngine.bytes32FromPubkey(pubkey)
bytes32FromPubkey(pubkey) == toHex(Base58Bytes(pubkey))

\* BaseEngine.encodeCallData(call) and callTupleObject(call), encoded.
EngineEncodeCallData(call) ==
    encodeAbi4(ToString(call.ty), toHex(call.to), ToString(call.value),
               toHex(call.data))

\* BaseEngine.buildIncomingPayload(outgoing)
buildIncomingPayload(outgoing) ==
    LET msg == outgoing.message
        encodedTransfer ==
            encodeAbi4(toHex(msg.remoteToken), bytes32FromPubkey(msg.localToken),
                       toHex(msg.to) \o "<pad-right>", ToString(msg.amount))
    IN IF msg.kind = "Call"
       THEN [ty |-> MessageType.Call, data |-> EngineEncodeCallData(msg.call)]
       ELSE IF msg.call = NoneCall
       THEN [ty |-> MessageType.Transfer, data |-> encodedTransfer]
       ELSE [ty |-> MessageType.TransferAndCall,
             data |-> encodeAbi2(encodedTransfer, EngineEncodeCallData(msg.call))]

\* BaseEngine.buildEvmMessage(outgoing, gasLimit)
buildEvmMessage(outgoing, gasLimit) ==
    LET nonce == outgoing.nonce
        senderBytes32 == bytes32FromPubkey(outgoing.sender)
        payload == buildIncomingPayload(outgoing)
        innerHash ==
            keccak256(encodeAbi3(senderBytes32, ToString(payload.ty), payload.data))
        pubkey == Base58Bytes(outgoing.address)
        outerHash == keccak256(encodeAbi3(ToString(nonce), "0x" \o pubkey, innerHash))
    IN EvmIncoming(innerHash, outerHash, bytes32FromPubkey(outgoing.address),
                   gasLimit, nonce, senderBytes32, payload.ty, payload.data)

InitHash ==
    /\ h_outgoing = OutgoingAccount("Outgoing1", 42, "Sender1",
                                    OutgoingCall(Call(0, "1111", 0, "d09de08a")))
    /\ h_gasLimit = 123456
    /\ h_helper = buildEvmIncomingMessage(h_outgoing, h_gasLimit)
    /\ h_engine = buildEvmMessage(h_outgoing, h_gasLimit)

\* Both builders are applied to one account and one gas limit.
BuildMessage(outgoing, gasLimit) ==
    /\ h_outgoing' = outgoing
    /\ h_gasLimit' = gasLimit
    /\ h_helper' = buildEvmIncomingMessage(outgoing, gasLimit)
    /\ h_engine' = buildEvmMessage(outgoing, gasLimit)
    /\ UNCHANGED <<monVars, trVars, rtVars, clientVars, proveVars, execVars,
                   initVars, restVars>>

-----------------------------------------------------------------------------
(* Initiation (SvmToBaseRouteAdapter.initiate with the SolanaEngine bridge *)
(* operations, BaseMarketsBaseToSvmRouteAdapter.initiate).                 *)

\* request.idempotencyKey, when given: two plain keys, and a key that reads
\* as hex and spells the bytes of "k1".
IdempotencyKeys == {"k1", "k2", "0x6b31"}

\* viem stringToBytes(value): the UTF-8 bytes of the keys.
stringToBytes(value) ==
    CASE value = "k1" -> "6b31"
      [] value = "k2" -> "6b32"
      [] value = "0x6b31" -> "307836623331"

\* The byte strings of the model whose hex spelling is read back.
ByteStrings ==
    {"6b31", "6b32", "307836623331",
     "keccak(0x6b31)", "keccak(0x6b32)", "keccak(0x307836623331)"}

\* viem isHex(value)
isHex(value) == \E bytes \in ByteStrings : value = toHex(bytes)

\* viem hexToBytes(hex)
hexToBytes(hex) == CHOOSE bytes \in ByteStrings : hex = toHex(bytes)

\* viem toBytes(value), for strings.
toBytes(value) == IF isHex(value) THEN hexToBytes(value) ELSE stringToBytes(value)

\* crypto.getRandomValues(new Uint8Array(32))
RandomSalts == {"random1", "random2"}

\* getProgramDerivedAddress({programAddress: bridgeProgram, seeds})
getProgramDerivedAddress(seed, salt) == "pda(" \o seed \o "," \o salt \o ")"

\* Mutant of outgoingMessagePubkey: the salt is always random.
outgoingMessagePubkey_RandomSalt(idempotencyKey, random) ==
    [salt |-> random,
     pubkey |-> getProgramDerivedAddress("OUTGOING_MESSAGE_SEED", random)]

\* SolanaEngine.outgoingMessagePubkey(idempotencyKey)
outgoingMessagePubkey(idempotencyKey, random) ==
    LET salt == IF idempotencyKey # Undefined
                THEN toBytes(keccak256(toHex(toBytes(idempotencyKey))))
                ELSE random
    IN [salt |-> salt,
        pubkey |-> getProgramDerivedAddress("OUTGOING_MESSAGE_SEED", salt)]

\* BridgeAction: a call, or a transfer of an asset.
Action(kind, assetKind, address) ==
    [kind |-> kind, asset |-> [kind |-> assetKind, address |-> address]]

\* The actions asked of the SVM -> Base route: mintA is mapped, mintB is not,
\* mintE is mapped to the empty string.
SvmActions ==
    {Action("call", "none", ""), Action("transfer", "native", ""),
     Action("transfer", "token", "mintA"), Action("transfer", "token", "mintB"),
     Action("transfer", "token", "mintE"), Action("transfer", "wrapped", "mintW")}

\* The actions asked of the Base -> SVM route: 0xercA is mapped.
EvmActions ==
    {Action("call", "none", ""), Action("transfer", "native", ""),
     Action("transfer", "token", "0xercA"), Action("transfer", "token", "0xercB"),
     Action("transfer", "wrapped", "0xercW")}

RelayModes == {Undefined, "auto", "manual", "none"}

\* Mutant of PayForRelay: every mode but none pays for the relay.
PayForRelay_UnlessNone(relayMode) == relayMode # "none"

\* const relayMode = req.relay?.mode ?? "auto";
\* const payForRelay = relayMode === "auto";
PayForRelay(relayMode) ==
    (IF relayMode = Undefined THEN "auto" ELSE relayMode) = "auto"

\* config.tokenMappings[routeMapKey(route)][address]
TokenMapping(route, address) ==
    CASE route = "svm->base" /\ address = "mintA" -> "1111"
      [] route = "svm->base" /\ address = "mintE" -> ""
      [] route = "base->svm" /\ address = "0xercA" -> "mintA"
      [] OTHER -> Undefined

\* !value, for a string or undefined.
Falsy(value) == value = Undefined \/ value = ""

\* The bridge errors of core/errors, by their code.
BridgeError(code) == [name |-> code, message |-> ""]

\* Mutant of SvmEngineOperation: a token transfer needs no mapping.
SvmEngineOperation_NoMappingCheck(action) ==
    IF action.kind = "call" THEN "bridgeCall"
    ELSE IF action.asset.kind = "native" THEN "bridgeSol"
    ELSE IF action.asset.kind = "token" THEN "bridgeSpl"
    ELSE "bridgeWrapped"

\* SvmToBaseRouteAdapter.initiate: the engine operation an action is handed
\* to, "none" when the adapter throws UnsupportedAction.
SvmEngineOperation(action) ==
    IF action.kind = "call" THEN "bridgeCall"
    ELSE IF action.kind = "transfer" /\ action.asset.kind = "native" THEN "bridgeSol"
    ELSE IF action.kind = "transfer" /\ action.asset.kind = "token"
    THEN IF Falsy(TokenMapping("svm->base", action.asset.address))
         THEN "none" ELSE "bridgeSpl"
    ELSE IF action.kind = "transfer" /\ action.asset.kind = "wrapped"
    THEN "bridgeWrapped"
    ELSE "none"

\* BaseMarketsBaseToSvmRouteAdapter.initiate: likewise.
EvmEngineOperation(action) ==
    IF action.kind # "transfer" THEN "none"
    ELSE IF action.asset.kind # "token" THEN "none"
    ELSE IF Falsy(TokenMapping("base->svm", action.asset.address)) THEN "none"
    ELSE "bridgeToken"

\* The message the bridge program stores for an engine operation.
StoredMessage(operation, action) ==
    CASE operation = "bridgeCall" -> OutgoingCall(Call(0, "1111", 0, "d09de08a"))
      [] operation = "bridgeSol" ->
           OutgoingTransfer("eeee", "NativeSol", "2222", 7, NoneCall)
      [] operation = "bridgeSpl" ->
           OutgoingTransfer(TokenMapping("svm->base", action.asset.address),
                            action.asset.address, "2222", 7, NoneCall)
      [] operation = "bridgeWrapped" ->
           OutgoingTransfer("2222", action.asset.address, "2222", 7, NoneCall)

\* A MessageRef: the source id and the destination id.
MessageRef(sourceScheme, sourceValue, destinationScheme, destinationValue) ==
    [source |-> [scheme |-> sourceScheme, value |-> sourceValue],
     destination |-> [scheme |-> destinationScheme, value |-> destinationValue]]

NoRef == MessageRef("", "", "", "")

\* SvmToBaseRouteAdapter.initiate: the MessageRef built for an outgoing
\* account (deriveOuterHash re-reads the account).
SvmMessageRef(outgoing) ==
    MessageRef("solana:outgoingMessagePda", outgoing.address, "evm:bridgeOuterHash",
               buildEvmIncomingMessage(outgoing, 100000).outerHash)

\* An initiate call: the route, the request's key, action and relay mode,
\* the salt and the address derived, whether an account existed at the
\* address, the instructions of the transaction and the number of
\* transactions sent, and how the call ended.
InitiateCall(route, key, action, relayMode, salt, pda, existed, ixs, sent, error, ref) ==
    [route |-> route, key |-> key, action |-> action, relayMode |-> relayMode,
     salt |-> salt, pda |-> pda, existed |-> existed, ixs |-> ixs, sent |-> sent,
     error |-> error, ref |-> ref]

NoInitiateCall ==
    InitiateCall("none", Undefined, Action("none", "none", ""), Undefined, "", "",
                 FALSE, <<>>, 0, NoError, NoRef)

\* What is kept of the call before the last one.
Earlier(call) == [call EXCEPT !.relayMode = Undefined, !.ixs = <<>>]

InitInitiate ==
    /\ s_outgoing = {}
    /\ s_nonce = 0
    /\ i_txs = 0
    /\ i_n = 0
    /\ i_prev = NoInitiateCall
    /\ i_call = NoInitiateCall

\* SvmToBaseRouteAdapter.initiate(req), as far as it gets: the mapping
\* check, the engine operation (setupMessage, the instruction, the
\* pay-for-relay instruction, the transaction), deriveOuterHash.  The
\* bridge program creates the outgoing-message account; the transaction
\* fails when an account exists at the address.
InitiateSvm(key, action, relayMode, random) ==
    /\ i_n < MaxInitiates
    /\ i_n' = i_n + 1
    /\ i_prev' = Earlier(i_call)
    /\ LET operation == SvmEngineOperation(action)
           payForRelay == PayForRelay(relayMode)
           derived == outgoingMessagePubkey(key, random)
           pda == derived.pubkey
           existed == \E account \in s_outgoing : account.address = pda
           ixs == <<operation>> \o (IF payForRelay THEN <<"payForRelay">> ELSE <<>>)
           created == OutgoingAccount(pda, s_nonce, "Sender1",
                                      StoredMessage(operation, action))
           begun == InitiateCall("svm->base", key, action, relayMode, derived.salt,
                                 pda, existed, ixs, 1, NoError, NoRef)
       IN IF operation = "none"
          THEN /\ i_call' = InitiateCall("svm->base", key, action, relayMode, "", "",
                                         FALSE, <<>>, 0,
                                         BridgeError("UnsupportedAction"), NoRef)
               /\ UNCHANGED <<s_outgoing, s_nonce, i_txs>>
          ELSE /\ i_txs' = i_txs + 1
               /\ IF existed
                  THEN /\ i_call' = [begun EXCEPT !.error = Error(TransactionFailed)]
                       /\ UNCHANGED <<s_outgoing, s_nonce>>
                  ELSE /\ i_call' = [begun EXCEPT !.ref = SvmMessageRef(created)]
                       /\ s_outgoing' = s_outgoing \cup {created}
                       /\ s_nonce' = s_nonce + 1
    /\ UNCHANGED <<monVars, trVars, rtVars, clientVars, proveVars, execVars,
                   hashVars, restVars>>

\* BaseMarketsBaseToSvmRouteAdapter.initiate(req): the three checks,
\* bridgeToken, the MessageRef from the transaction's MessageInitiated event.
InitiateEvm(key, action) ==
    /\ i_n < MaxInitiates
    /\ i_n' = i_n + 1
    /\ i_prev' = Earlier(i_call)
    /\ LET operation == EvmEngineOperation(action)
           txHash == "0xtx" \o ToString(i_txs + 1)
       IN IF operation = "none"
          THEN /\ i_call' = InitiateCall("base->svm", key, action, Undefined, "", "",
                                         FALSE, <<>>, 0,
                                         BridgeError("UnsupportedAction"), NoRef)
               /\ UNCHANGED i_txs
          ELSE /\ i_txs' = i_txs + 1
               /\ i_call' = InitiateCall("base->svm", key, action, Undefined, "", "",
                                         FALSE, <<operation>>, 1, NoError,
                                         MessageRef("evm:messageHash",
                                                    keccak256(txHash), "", ""))
    /\ UNCHANGED <<s_outgoing, s_nonce, monVars, trVars, rtVars, clientVars,
                   proveVars, execVars, hashVars, restVars>>

-----------------------------------------------------------------------------
(* Status and monitor of the SVM -> Base route                             *)
(* (SvmToBaseRouteAdapter.status, SvmToBaseRouteAdapter.monitor).          *)

\* Mutant of SvmStatus: a success reads as Executable.
SvmStatus_SuccessIgnored(ref, success, failure, at) ==
    IF ref.destination.scheme # "evm:bridgeOuterHash" \/ Falsy(ref.destination.value)
    THEN Status("Unknown", Undefined, Undefined, at)
    ELSE IF failure
    THEN Status("Failed", ref.destination.value, "destination marked failure", at)
    ELSE Status("Executable", Undefined, Undefined, at)

\* Mutant of SvmStatus: the destination id is not looked at.
SvmStatus_AnyDestination(ref, success, failure, at) ==
    IF failure
    THEN Status("Failed", ref.destination.value, "destination marked failure", at)
    ELSE IF success
    THEN Status("Executed", ref.destination.value, Undefined, at)
    ELSE Status("Executable", Undefined, Undefined, at)

\* SvmToBaseRouteAdapter.status(ref), given what the multicall reads.
SvmStatus(ref, success, failure, at) ==
    IF ref.destination.scheme # "evm:bridgeOuterHash" \/ Falsy(ref.destination.value)
    THEN Status("Unknown", Undefined, Undefined, at)
    ELSE IF failure
    THEN Status("Failed", ref.destination.value, "destination marked failure", at)
    ELSE IF success
    THEN Status("Executed", ref.destination.value, Undefined, at)
    ELSE Status("Executable", Undefined, Undefined, at)

\* getStatus() of monitor(ref): status(ref) stamps the time of the call,
\* reads the bridge and resolves after `latency` ms; pollingMonitor then
\* runs up to its next yield, return, throw or sleep.  The ref is the one the
\* last initiate returned.
StatusProbe(latency) ==
    /\ m_pc = "probing"
    /\ now' = now + latency
    /\ LET st == SvmStatus(i_call.ref, e_successes, e_failures, now) IN
       /\ m_next' = st
       /\ m_probes' = Append(m_probes, [st |-> st, called |-> m_callAt, returned |-> now'])
       /\ IF IllegalTransition(m_prev, st)
          THEN m_pc' = "invariant" /\ UNCHANGED m_yielded
          ELSE IF KeyChanged(m_prevKey, stableStatusKey(st))
               THEN /\ m_pc' = "yielded"
                    /\ m_yielded' = Append(m_yielded, [st |-> st, t |-> now'])
               ELSE AfterYieldBlock(st) /\ UNCHANGED m_yielded
    /\ UNCHANGED <<m_opts, m_start, m_prev, m_prevKey, m_callAt, trVars, rtVars,
                   clientVars, proveVars, execVars, initVars, hashVars, restVars>>

-----------------------------------------------------------------------------
(* Reading the MessageInitiated event of a Base transaction               *)
(* (BaseEngine.generateProof, the adapter's extractMessageInitiated).      *)

\* The number of MessageInitiated events among the logs of a receipt.
MessageInitiatedCount(txHash) ==
    Cardinality({i \in 1..Len(Receipt(txHash).logs) :
                   Receipt(txHash).logs[i].eventName = "MessageInitiated"})

\* publicClient.readContract(generateProof, [nonce], blockNumber): the proof
\* of a message at a block.
RawProof(messageHash, blockNumber) ==
    "proof(" \o messageHash \o "@" \o ToString(blockNumber) \o ")"

\* A call of generateProof: the arguments, the error thrown ("" when none),
\* the event and the proof returned, and the number of proofs read from the
\* bridge contract.
GenerateProofCall(txHash, blockNumber) ==
    LET result == generateProof(txHash, blockNumber)
    IN [txHash |-> txHash, blockNumber |-> blockNumber, error |-> result.error,
        event |-> result.event,
        rawProof |-> IF result.error = "" THEN RawProof(result.event.messageHash,
                                                        blockNumber)
                     ELSE "",
        proofReads |-> IF result.error = "" THEN 1 ELSE 0]

\* extractMessageInitiated(txHash): the error thrown ("" when none) and the
\* event the MessageRef is built from.
extractMessageInitiated(txHash) ==
    LET logs == Receipt(txHash).logs
        events == {i \in 1..Len(logs) : logs[i].eventName = "MessageInitiated"}
    IN IF Cardinality(events) # 1
       THEN [txHash |-> txHash, error |-> "ProofNotAvailable", event |-> NoEvent]
       ELSE [txHash |-> txHash, error |-> "", event |-> logs[CHOOSE i \in events : TRUE]]

InitGenerate ==
    /\ g_proof = GenerateProofCall("0xtx1", 2)
    /\ g_extract = extractMessageInitiated("0xtx1")

\* generateProof is applied to a transaction hash and a block number.
EvalGenerateProof(txHash, blockNumber) ==
    /\ g_proof' = GenerateProofCall(txHash, blockNumber)
    /\ UNCHANGED <<g_extract, monVars, trVars, rtVars, clientVars, proveVars,
                   execVars, initVars, hashVars, ctorVars, streamVars, wrapVars,
                   refVars, mexVars, signerVars, gasVars, ixVars>>

\* extractMessageInitiated is applied to a transaction hash.
EvalExtractMessageInitiated(txHash) ==
    /\ g_extract' = extractMessageInitiated(txHash)
    /\ UNCHANGED <<g_proof, monVars, trVars, rtVars, clientVars, proveVars,
                   execVars, initVars, hashVars, ctorVars, streamVars, wrapVars,
                   refVars, mexVars, signerVars, gasVars, ixVars>>

-----------------------------------------------------------------------------
(* Construction of the client (createBridgeClient).                        *)

\* The chain ids the adapters of a configuration report.
AdapterChainIds == ClientChainIds \cup {"solana:devnet"}

\* The finite sequences of at most n elements of a set.
SeqUpTo(S, n) == UNION {[1..k -> S] : k \in 0..n}

\* The message of the error thrown for a chain id registered twice.
DuplicateChainAdapter(id) ==
    "Duplicate chain adapter registered for " \o id
      \o ". Ensure each adapter has a unique chain id."

\* createBridgeClient(config), for the adapters of config.chains in the order
\* of Object.values: the error thrown, or the chains of the client made.
createBridgeClient(adapters) ==
    LET repeated == {j \in 1..Len(adapters) :
                       \E i \in 1..(j - 1) : adapters[i] = adapters[j]}
    IN IF repeated # {}
       THEN [error |-> Error(DuplicateChainAdapter(
                                adapters[CHOOSE j \in repeated :
                                           \A k \in repeated : j <= k])),
             made |-> FALSE, chains |-> {}]
       ELSE [error |-> NoError, made |-> TRUE,
             chains |-> {adapters[i] : i \in 1..Len(adapters)}]

InitCreate ==
    /\ k_config = <<>>
    /\ k_result = createBridgeClient(<<>>)

\* createBridgeClient is called with a configuration.
CreateBridgeClient(adapters) ==
    /\ k_config' = adapters
    /\ k_result' = createBridgeClient(adapters)
    /\ UNCHANGED <<monVars, trVars, rtVars, clientVars, proveVars, execVars,
                   initVars, hashVars, genVars, streamVars,
                   wrapVars, refVars, mexVars, signerVars, gasVars, ixVars>>

-----------------------------------------------------------------------------
(* Two monitor streams of one MessageRef: each call of pollingMonitor has  *)
(* its own timeoutMs, pollIntervalMs, start, prev and prevKey.             *)

\* The locals of a suspended generator, with the history kept for it.
StreamLocals(pc, opts, start, prev, prevKey, next, callAt, probes, yielded) ==
    [pc |-> pc, opts |-> opts, start |-> start, prev |-> prev, prevKey |-> prevKey,
     next |-> next, callAt |-> callAt, probes |-> probes, yielded |-> yielded]

\* The stream that m_pc .. m_yielded hold.
LiveStream ==
    StreamLocals(m_pc, m_opts, m_start, m_prev, m_prevKey, m_next, m_callAt,
                 m_probes, m_yielded)

InitStreams ==
    /\ r_other = StreamLocals("none", NoOptions, 0, NoStatus, Undefined, NoStatus, 0,
                              <<>>, <<>>)
    /\ r_live = 1

\* Mutant of SwitchStream: prevKey is shared by the two streams.
SwitchStream_SharedPrevKey ==
    /\ r_live' = 3 - r_live
    /\ r_other' = LiveStream
    /\ m_pc' = r_other.pc
    /\ m_opts' = r_other.opts
    /\ m_start' = r_other.start
    /\ m_prev' = r_other.prev
    /\ m_prevKey' = m_prevKey
    /\ m_next' = r_other.next
    /\ m_callAt' = r_other.callAt
    /\ m_probes' = r_other.probes
    /\ m_yielded' = r_other.yielded
    /\ UNCHANGED <<now, trVars, rtVars, clientVars, proveVars, execVars, initVars,
                   hashVars, genVars, ctorVars, wrapVars, refVars,
                   mexVars, signerVars, gasVars, ixVars>>

\* The event loop turns to the other stream: the running generator is left
\* at its await or yield with its locals, and the other one's are taken up.
SwitchStream ==
    /\ r_live' = 3 - r_live
    /\ r_other' = LiveStream
    /\ m_pc' = r_other.pc
    /\ m_opts' = r_other.opts
    /\ m_start' = r_other.start
    /\ m_prev' = r_other.prev
    /\ m_prevKey' = r_other.prevKey
    /\ m_next' = r_other.next
    /\ m_callAt' = r_other.callAt
    /\ m_probes' = r_other.probes
    /\ m_yielded' = r_other.yielded
    /\ UNCHANGED <<now, trVars, rtVars, clientVars, proveVars, execVars, initVars,
                   hashVars, genVars, ctorVars, wrapVars, refVars,
                   mexVars, signerVars, gasVars, ixVars>>

-----------------------------------------------------------------------------
(* The entry points of the client (DefaultBridgeClient.transfer, call,     *)
(* request).  A RelayOptions value is written as its mode, a call and a    *)
(* metadata object as a name; an absent field is Undefined.                *)

\* TransferRequestInput and CallRequestInput, in one shape: a call input
\* has no asset, amount or recipient.
RequestInput(route, asset, amount, recipient, call, relay, idempotencyKey, metadata) ==
    [route |-> route, asset |-> asset, amount |-> amount, recipient |-> recipient,
     call |-> call, relay |-> relay, idempotencyKey |-> idempotencyKey,
     metadata |-> metadata]

TransferInputs ==
    {RequestInput(route, asset, 7, "recipient", call, relay, key, metadata) :
        route \in {Route("solana:mainnet", "eip155:8453"),
                   Route("eip155:8453", "solana:mainnet")},
        asset \in {"native", "token:mintA"}, call \in {Undefined, "callA"},
        relay \in {Undefined, "auto", "manual"}, key \in {Undefined, "k1"},
        metadata \in {Undefined, "meta"}}

CallInputs ==
    {RequestInput(route, Undefined, 0, Undefined, "callA", relay, key, metadata) :
        route \in {Route("solana:mainnet", "eip155:8453")},
        relay \in {Undefined, "auto", "manual"}, key \in {Undefined, "k1"},
        metadata \in {Undefined, "meta"}}

\* A BridgeRequest, the action in one shape for both kinds.
BridgeRequest(route, kind, asset, amount, recipient, call, idempotencyKey, relay, metadata) ==
    [route |-> route,
     action |-> [kind |-> kind, asset |-> asset, amount |-> amount,
                 recipient |-> recipient, call |-> call],
     idempotencyKey |-> idempotencyKey, relay |-> relay, metadata |-> metadata]

\* Mutant of Coalesce: the right operand always.
Coalesce_Right(value, fallback) == fallback

\* value ?? fallback
Coalesce(value, fallback) == IF value = Undefined THEN fallback ELSE value

\* transfer(req): the bridgeReq it builds.
TransferBridgeRequest(req, defaultsRelay) ==
    BridgeRequest(req.route, "transfer", req.asset, req.amount, req.recipient,
                  req.call, req.idempotencyKey, Coalesce(req.relay, defaultsRelay),
                  req.metadata)

\* call(req): the bridgeReq it builds.
CallBridgeRequest(req, defaultsRelay) ==
    BridgeRequest(req.route, "call", Undefined, 0, Undefined, req.call,
                  req.idempotencyKey, Coalesce(req.relay, defaultsRelay),
                  req.metadata)

InitWrap ==
    /\ w_defaults = Undefined
    /\ w_op = "none"
    /\ w_input = RequestInput(Route("", ""), Undefined, 0, Undefined, Undefined,
                              Undefined, Undefined, Undefined)
    /\ w_handed = BridgeRequest(Route("", ""), "none", Undefined, 0, Undefined,
                                Undefined, Undefined, Undefined, Undefined)

\* client.transfer(req) or client.call(req), on a client made with
\* defaults.relay = defaultsRelay and on a route with an adapter: the
\* request built goes through request(bridgeReq) to adapter.initiate.
ClientWrapper(op, req, defaultsRelay) ==
    /\ w_defaults' = defaultsRelay
    /\ w_op' = op
    /\ w_input' = req
    /\ w_handed' = IF op = "transfer" THEN TransferBridgeRequest(req, defaultsRelay)
                   ELSE CallBridgeRequest(req, defaultsRelay)
    /\ UNCHANGED <<monVars, trVars, rtVars, clientVars, proveVars, execVars,
                   initVars, hashVars, genVars, ctorVars, streamVars, refVars,
                   mexVars, signerVars, gasVars, ixVars>>

-----------------------------------------------------------------------------
(* Status and monitor of the Base -> SVM route                             *)
(* (BaseMarketsBaseToSvmRouteAdapter.status, .monitor).                    *)

\* A MessageRef of the route: its source id and derived.txHash.
EvmRef(scheme, value, txHash) ==
    [source |-> [scheme |-> scheme, value |-> value], txHash |-> txHash]

NoEvmRef == EvmRef("", "", Undefined)

\* The refs a caller may hold for the message h1 of transaction 0xtx1.
EvmRefs ==
    {EvmRef("evm:messageHash", "h1", "0xtx1"),
     EvmRef("evm:messageHash", "h1", Undefined),
     EvmRef("evm:txHash", "0xtx1", "0xtx1")}

\* Mutant of EvmStatus: the executed flag is not looked at.
EvmStatus_ExecutedIgnored(ref, account, at) ==
    IF ref.source.scheme # "evm:messageHash" \/ Falsy(ref.source.value)
    THEN Status("Unknown", Undefined, Undefined, at)
    ELSE IF ~IncomingExists(account)
    THEN Status("Initiated", ref.txHash, Undefined, at)
    ELSE Status("Executable", Undefined, Undefined, at)

\* BaseMarketsBaseToSvmRouteAdapter.status(ref), given the state of the
\* incoming-message account that fetchMaybeIncomingMessage reads.
EvmStatus(ref, account, at) ==
    IF ref.source.scheme # "evm:messageHash" \/ Falsy(ref.source.value)
    THEN Status("Unknown", Undefined, Undefined, at)
    ELSE IF ~IncomingExists(account)
    THEN Status("Initiated", ref.txHash, Undefined, at)
    ELSE IF IncomingExecuted(account)
    THEN Status("Executed", Undefined, Undefined, at)
    ELSE Status("Executable", Undefined, Undefined, at)

\* The account at the PDA derived from the ref's message hash.
IncomingAccountOf(ref) ==
    IF ref.source.value \in MessageHashes THEN p_incoming[ref.source.value]
    ELSE "absent"

InitRef == v_ref = NoEvmRef

\* A caller holds a MessageRef of the route, to monitor it.
TakeRef(ref) ==
    /\ v_ref = NoEvmRef
    /\ v_ref' = ref
    /\ UNCHANGED <<monVars, trVars, rtVars, clientVars, proveVars, execVars,
                   initVars, hashVars, genVars, ctorVars, streamVars, wrapVars,
                   mexVars, signerVars, gasVars, ixVars>>

\* getStatus() of monitor(ref): status(ref) stamps the time of the call,
\* reads the account and resolves after `latency` ms; pollingMonitor then
\* runs up to its next yield, return, throw or sleep.
IncomingProbe(latency) ==
    /\ m_pc = "probing"
    /\ now' = now + latency
    /\ LET st == EvmStatus(v_ref, IncomingAccountOf(v_ref), now) IN
       /\ m_next' = st
       /\ m_probes' = Append(m_probes, [st |-> st, called |-> m_callAt, returned |-> now'])
       /\ IF IllegalTransition(m_prev, st)
          THEN m_pc' = "invariant" /\ UNCHANGED m_yielded
          ELSE IF KeyChanged(m_prevKey, stableStatusKey(st))
               THEN /\ m_pc' = "yielded"
                    /\ m_yielded' = Append(m_yielded, [st |-> st, t |-> now'])
               ELSE AfterYieldBlock(st) /\ UNCHANGED m_yielded
    /\ UNCHANGED <<m_opts, m_start, m_prev, m_prevKey, m_callAt, trVars, rtVars,
                   clientVars, proveVars, execVars, initVars, hashVars, restVars>>

-----------------------------------------------------------------------------
(* BaseEngine.monitorMessageExecution.                                     *)

\* options.timeoutMs ?? DEFAULT_MONITOR_TIMEOUT_MS
MonitorExecutionTimeoutMs(opts) ==
    IF "timeoutMs" \in opts.given THEN opts.timeoutMs ELSE DEFAULT_MONITOR_TIMEOUT_MS

\* options.pollIntervalMs ?? DEFAULT_MONITOR_POLL_INTERVAL_MS
MonitorExecutionPollIntervalMs(opts) ==
    IF "pollIntervalMs" \in opts.given THEN opts.pollIntervalMs
    ELSE DEFAULT_MONITOR_POLL_INTERVAL_MS

\* new Error(`Monitor message execution timed out after ${timeoutMs}ms`)
ErrMonitorTimeout(timeoutMs) ==
    Error("Monitor message execution timed out after " \o ToString(timeoutMs) \o "ms")

\* Mutant of MonitorExecutionInTime: the loop gives up at once.
MonitorExecutionInTime_Never(at, start, timeoutMs) == FALSE

\* while (Date.now() - startTime <= timeoutMs)
MonitorExecutionInTime(at, start, timeoutMs) == at - start <= timeoutMs

\* if (isSuccessful) return;
MonitorExecutionDone(isSuccessful) == isSuccessful

\* A monitorMessageExecution call: where it stands, its options, startTime,
\* the successes reads it made and the error it threw.
MonitorExecutionCall(pc, opts, start, polls, error) ==
    [pc |-> pc, opts |-> opts, start |-> start, polls |-> polls, error |-> error]

InitMonitorExecution ==
    y_call = MonitorExecutionCall("idle", ExecuteMessageOptions({}, 0, 0), 0, <<>>, NoError)

\* The loop head, reached at time `at`: another read, or the throw.
MonitorExecutionLoop(call, at) ==
    IF MonitorExecutionInTime(at, call.start, MonitorExecutionTimeoutMs(call.opts))
    THEN [call EXCEPT !.pc = "reading"]
    ELSE [call EXCEPT !.pc = "failed",
                      !.error = ErrMonitorTimeout(MonitorExecutionTimeoutMs(call.opts))]

\* monitorMessageExecution(outgoing, options) up to its first readContract.
MonitorMessageExecution(opts) ==
    /\ y_call.pc = "idle"
    /\ y_call' = MonitorExecutionLoop(MonitorExecutionCall("idle", opts, now, <<>>, NoError), now)
    /\ UNCHANGED <<monVars, trVars, rtVars, clientVars, proveVars, execVars,
                   initVars, hashVars, genVars, ctorVars, streamVars, wrapVars,
                   refVars, signerVars, gasVars, ixVars>>

mexFrame == <<m_pc, m_opts, m_start, m_prev, m_prevKey, m_next, m_callAt,
              m_probes, m_yielded, trVars, rtVars, clientVars, proveVars,
              initVars, hashVars, genVars, ctorVars, streamVars, wrapVars,
              refVars, signerVars, gasVars, ixVars>>

\* readContract(successes, [outerHash]) answers after `latency` ms with the
\* flag as it was when asked; the call returns, or goes to sleep.  The
\* failures flag of that moment is kept as history: the code does not read it.
MonitorExecutionRead(latency) ==
    /\ y_call.pc = "reading"
    /\ now' = now + latency
    /\ y_call' = [y_call EXCEPT
           !.polls = Append(@, [successes |-> e_successes, failures |-> e_failures,
                                asked |-> now, at |-> now']),
           !.pc = IF MonitorExecutionDone(e_successes) THEN "returned" ELSE "sleeping"]
    /\ UNCHANGED <<e_successes, e_failures, e_valid, e_relayTxs, x_call, mexFrame>>

\* await sleep(pollIntervalMs) resolves and the loop condition is tested.
MonitorExecutionSleepDone ==
    /\ y_call.pc = "sleeping"
    /\ now' = now + MonitorExecutionPollIntervalMs(y_call.opts)
    /\ y_call' = MonitorExecutionLoop(y_call, now')
    /\ UNCHANGED <<e_successes, e_failures, e_valid, e_relayTxs, x_call, mexFrame>>

-----------------------------------------------------------------------------
(* SolanaEngine.getKeypairSignerFromPath and its keypairSignerCache.       *)

\* The keypair paths asked for; the last one names no file.
KeypairPaths == {"payer.json", "id.json", "missing.json"}

\* existsSync(keypairPath)
existsSync(keypairPath) == keypairPath # "missing.json"

\* new Error(`Keypair not found at: ${keypairPath}`)
ErrKeypairNotFound(keypairPath) == Error("Keypair not found at: " \o keypairPath)

\* this.keypairSignerCache.has(keypairPath); signer instances are numbered
\* from 1 in the order of their creation.
SignerCacheHas(cache, keypairPath) == cache[keypairPath] # 0

\* One getKeypairSignerFromPath call: where it stands, its path, how many
\* calls the caller has made, the signer it returned, the error it threw.
SignerCall(pc, path, n, signer, error) ==
    [pc |-> pc, path |-> path, n |-> n, signer |-> signer, error |-> error]

InitSigner ==
    /\ q_cache = [path \in KeypairPaths |-> 0]
    /\ q_loads = [path \in KeypairPaths |-> 0]
    /\ q_sets = [path \in KeypairPaths |-> 0]
    /\ q_made = 0
    /\ q_calls = [c \in Callers |-> SignerCall("idle", "", 0, 0, NoError)]

signerFrame == <<monVars, trVars, rtVars, clientVars, proveVars, execVars,
                 initVars, hashVars, genVars, ctorVars, streamVars, wrapVars,
                 refVars, mexVars, gasVars, ixVars>>

\* getKeypairSignerFromPath(keypairPath) up to its first await: the cache
\* lookup, the existence check and the start of the key-file read.
GetKeypairSigner(c, keypairPath) ==
    /\ q_calls[c].pc \in {"idle", "done", "failed"}
    /\ q_calls[c].n < MaxSignerCalls
    /\ LET n == q_calls[c].n + 1 IN
       IF SignerCacheHas(q_cache, keypairPath)
       THEN /\ q_calls' = [q_calls EXCEPT ![c] =
                   SignerCall("done", keypairPath, n, q_cache[keypairPath], NoError)]
            /\ UNCHANGED q_loads
       ELSE IF ~existsSync(keypairPath)
       THEN /\ q_calls' = [q_calls EXCEPT ![c] =
                   SignerCall("failed", keypairPath, n, 0, ErrKeypairNotFound(keypairPath))]
            /\ UNCHANGED q_loads
       ELSE /\ q_calls' = [q_calls EXCEPT ![c] =
                   SignerCall("loading", keypairPath, n, 0, NoError)]
            /\ q_loads' = [q_loads EXCEPT ![keypairPath] = @ + 1]
    /\ UNCHANGED <<q_cache, q_sets, q_made, signerFrame>>

\* The awaits on the file read and the key import are over: the signer is
\* created, stored under the path and returned.
StoreKeypairSigner(c) ==
    /\ q_calls[c].pc = "loading"
    /\ q_made' = q_made + 1
    /\ q_cache' = [q_cache EXCEPT ![q_calls[c].path] = q_made + 1]
    /\ q_sets' = [q_sets EXCEPT ![q_calls[c].path] = @ + 1]
    /\ q_calls' = [q_calls EXCEPT ![c].pc = "done", ![c].signer = q_made + 1]
    /\ UNCHANGED <<q_loads, signerFrame>>

-----------------------------------------------------------------------------
(* The gas limit from SvmToBaseRouteAdapter.initiate to its execute.       *)

\* req.relay: absent, or a mode with or without a gas limit.
RelayOptions(given, mode, gasGiven, gasLimit) ==
    [given |-> given, mode |-> mode, gasGiven |-> gasGiven, gasLimit |-> gasLimit]

RelayOptionChoices ==
    {RelayOptions(FALSE, Undefined, FALSE, 0),
     RelayOptions(TRUE, "auto", FALSE, 0),
     RelayOptions(TRUE, "auto", TRUE, 123456),
     RelayOptions(TRUE, Undefined, TRUE, 500000),
     RelayOptions(TRUE, "manual", TRUE, 123456)}

\* req.relay?.mode ?? "auto"
RelayModeOf(relay) ==
    IF relay.given /\ relay.mode # Undefined THEN relay.mode ELSE "auto"

\* req.relay?.gasLimit ?? 100_000n
RelayGasLimitOf(relay) ==
    IF relay.given /\ relay.gasGiven THEN relay.gasLimit ELSE 100000

\* An optional bigint argument.
GasOption(given, gasLimit) == [given |-> given, gasLimit |-> gasLimit]

\* The MessageRef of the route, with derived.gasLimit.
GasMessageRef(source, destination, gasLimit) ==
    [source |-> source, destination |-> destination, gasLimit |-> gasLimit]

NoGasRef == GasMessageRef([scheme |-> "", value |-> ""], [scheme |-> "", value |-> ""], "")

\* Mutant of ExecuteGasOption: execute hands over derived.gasLimit.
ExecuteGasOption_FromRef(ref) ==
    GasOption(TRUE, CHOOSE g \in 0..500000 : ToString(g) = ref.gasLimit)

\* this.baseEngine.executeMessage(outgoing): no options, so options.gasLimit
\* is undefined whatever the ref holds.
ExecuteGasOption(ref) == GasOption(FALSE, 0)

\* buildEvmMessage(outgoing, gasLimit: bigint = DEFAULT_EVM_GAS_LIMIT)
GasLimitOrDefault(option) ==
    IF option.given THEN option.gasLimit ELSE DEFAULT_EVM_GAS_LIMIT

\* An execute call of the adapter: where it stands, the message built for
\* relayMessages, the transactions sent, the result and the error.
AdapterExecuteCall(pc, built, sent, tx, error) ==
    [pc |-> pc, built |-> built, sent |-> sent, tx |-> tx, error |-> error]

NoBuilt == EvmIncoming("", "", "", 0, 0, "", 0, "")

InitGas ==
    /\ u_outgoing = OutgoingAccount("", 0, "", OutgoingCall(Call(0, "", 0, "")))
    /\ u_ref = NoGasRef
    /\ u_paid = 0
    /\ u_exec = AdapterExecuteCall("idle", NoBuilt, 0, "", NoError)

gasFrame == <<monVars, trVars, rtVars, clientVars, proveVars, initVars,
              hashVars, genVars, ctorVars, streamVars, wrapVars, refVars,
              mexVars, signerVars, ixVars>>

\* SvmToBaseRouteAdapter.initiate(req) for a call or a transfer: the engine
\* stores the outgoing message, pays for the relay in mode auto, and the
\* adapter returns the MessageRef.
RelayInitiate(outgoing, relay) ==
    /\ u_ref = NoGasRef
    /\ LET payForRelay == RelayModeOf(relay) = "auto"
           gasLimit == RelayGasLimitOf(relay)
       IN /\ u_outgoing' = outgoing
          /\ u_paid' = IF payForRelay THEN gasLimit ELSE 0
          /\ u_ref' = GasMessageRef(
                 [scheme |-> "solana:outgoingMessagePda", value |-> outgoing.address],
                 [scheme |-> "evm:bridgeOuterHash",
                  value |-> buildEvmIncomingMessage(outgoing, gasLimit).outerHash],
                 ToString(gasLimit))
    /\ UNCHANGED <<now, u_exec, execVars, gasFrame>>

\* SvmToBaseRouteAdapter.execute(ref) up to waitForApproval: the check of
\* the destination id, getOutgoingMessage, buildEvmMessage, and the
\* successes and failures read by executeMessage.
AdapterExecute(ref) ==
    /\ u_ref # NoGasRef
    /\ u_exec.pc = "idle"
    /\ LET built == buildEvmMessage(u_outgoing, GasLimitOrDefault(ExecuteGasOption(ref)))
       IN u_exec' =
            IF ref.destination.scheme # "evm:bridgeOuterHash"
            THEN AdapterExecuteCall("failed", NoBuilt, 0, "", BridgeError("UnsupportedAction"))
            ELSE IF e_successes
            THEN AdapterExecuteCall("done", built, 0, built.outerHash, NoError)
            ELSE IF e_failures
            THEN AdapterExecuteCall("failed", built, 0, "", ErrPreviouslyFailed)
            ELSE AdapterExecuteCall("waiting", built, 0, "", NoError)
    /\ UNCHANGED <<now, u_outgoing, u_ref, u_paid, execVars, gasFrame>>

\* waitForApproval returned: relayMessages([evmMessage]) is sent.
AdapterRelay ==
    /\ u_exec.pc = "waiting"
    /\ e_valid
    /\ e_relayTxs' = e_relayTxs + 1
    /\ u_exec' = [u_exec EXCEPT !.pc = "done", !.sent = @ + 1,
                                !.tx = RelayTx(e_relayTxs + 1)]
    /\ UNCHANGED <<now, e_successes, e_failures, e_valid, x_call, u_outgoing,
                   u_ref, u_paid, gasFrame>>

\* waitForApproval gave up before the validator approved.
AdapterApprovalTimeout ==
    /\ u_exec.pc = "waiting"
    /\ ~e_valid
    /\ u_exec' = [u_exec EXCEPT !.pc = "failed", !.error = ErrApprovalTimeout]
    /\ UNCHANGED <<now, u_outgoing, u_ref, u_paid, execVars, gasFrame>>

-----------------------------------------------------------------------------
(* The remaining accounts of the relayMessage instruction                  *)
(* (SolanaEngine.handleExecuteMessage, messageCallAccounts, getIxAccounts).*)

\* An account of a nested instruction of the stored message.
IxAccount(pubkey, isWritable, isSigner) ==
    [pubkey |-> pubkey, isWritable |-> isWritable, isSigner |-> isSigner]

\* An AccountMeta: address and AccountRole.
AccountMeta(address, role) == [address |-> address, role |-> role]

\* getProgramDerivedAddress(seeds: BRIDGE_CPI_AUTHORITY_SEED, sender)
bridgeCpiAuthorityPda(sender) == "CpiAuthority:" \o sender

\* getIxAccounts: the role of one account of a nested instruction.
IxAccountRole(acc) ==
    IF acc.isWritable
    THEN (IF acc.isSigner THEN "WRITABLE_SIGNER" ELSE "WRITABLE")
    ELSE (IF acc.isSigner THEN "READONLY_SIGNER" ELSE "READONLY")

\* messageCallAccounts for a call message of one instruction: the accounts
\* of the instruction, then its program id.
messageCallAccounts(ixAccounts, programId) ==
    [i \in 1..Len(ixAccounts) |->
        AccountMeta(ixAccounts[i].pubkey, IxAccountRole(ixAccounts[i]))]
    \o <<AccountMeta(programId, "READONLY")>>

\* handleExecuteMessage: the map over remainingAccounts.
DowngradeCpiAuthority(acct, cpiAuthority) ==
    IF acct.address = cpiAuthority
    THEN IF acct.role = "WRITABLE" \/ acct.role = "WRITABLE_SIGNER"
         THEN AccountMeta(acct.address, "WRITABLE")
         ELSE AccountMeta(acct.address, "READONLY")
    ELSE acct

\* The relayMessage instruction of one execute: the sender of the incoming
\* message, the accounts its nested instruction names, the remaining
\* accounts appended to the instruction, the transactions sent.
RelayInstruction(sender, ixAccounts, remaining, sent) ==
    [sender |-> sender, ixAccounts |-> ixAccounts, remaining |-> remaining,
     sent |-> sent]

InitRelayInstruction == a_ix = RelayInstruction("", <<>>, <<>>, 0)

\* handleExecuteMessage for a proven call message sent by `sender`, from the
\* bridge CPI authority PDA to buildAndSendTransaction.
BuildRelayInstruction(sender, ixAccounts) ==
    /\ LET remainingAccounts == messageCallAccounts(ixAccounts, "Program1")
           mapped == [i \in 1..Len(remainingAccounts) |->
                         DowngradeCpiAuthority(remainingAccounts[i],
                                               bridgeCpiAuthorityPda(sender))]
       IN a_ix' = RelayInstruction(sender, ixAccounts, mapped, 1)
    /\ UNCHANGED <<monVars, trVars, rtVars, clientVars, proveVars, execVars,
                   initVars, hashVars, genVars, ctorVars, streamVars, wrapVars,
                   refVars, mexVars, signerVars, gasVars>>

-----------------------------------------------------------------------------
(* Specifications.                                                         *)

Init ==
    /\ InitMonitor /\ InitTransition /\ InitRouteCheck /\ InitClient
    /\ InitProve /\ InitExecute /\ InitInitiate /\ InitHash
    /\ InitGenerate /\ InitCreate /\ InitStreams /\ InitWrap /\ InitRef
    /\ InitMonitorExecution /\ InitSigner /\ InitGas
    /\ InitRelayInstruction

\* The pure functions applied to arbitrary arguments.
NextFunctions ==
    \/ \E from \in StatusTypes, to \in StatusTypes : EvalTransition(from, to)
    \/ \E route \in Routes : EvalSupportsBridgeRoute(route)

SpecFunctions == Init /\ [][NextFunctions]_vars

NextMonitor ==
    \/ \E opts \in MonitorOptionChoices : MonitorCall(opts)
    \/ \E delay \in StartDelays : MonitorStart(delay)
    \/ \E st \in StatusesAt(0), d \in ProbeLatencies : ProbeReturn(st, d)
    \/ \E d \in ProbeLatencies : ProbeThrow(d)
    \/ ConsumerPull
    \/ SleepDone

SpecMonitor == Init /\ [][NextMonitor]_vars

\* One caller using every operation on every route, one call at a time.
NextClient ==
    \/ \E op \in ClientOps, route \in ClientRoutes : Invoke(1, op, route)
    \/ Pull(1)
    \/ \E outcome \in {"ok", "AdapterError"} : Resume(1, outcome)

SpecClient == Init /\ [][NextClient]_vars

\* Concurrent callers on the routes the registry accepts.
NextCache ==
    \/ \E s \in SlotIds, op \in ConcurrentOps, route \in ConcurrentRoutes :
          Invoke(s, op, route)
    \/ \E s \in SlotIds : Pull(s)
    \/ \E s \in SlotIds, outcome \in {"ok", "AdapterError"} : Resume(s, outcome)

SpecCache == Init /\ [][NextCache]_vars

\* Prove and execute calls on the Base -> SVM adapter, possibly overlapping.
NextProve ==
    \/ AdvanceBaseBlock
    \/ \E s \in Callers, txHash \in TxHashes \cup {Undefined},
          opts \in ProveOptionChoices : ProveBegin(s, txHash, opts)
    \/ \E s \in Callers : ProveFetch(s)
    \/ \E s \in Callers : ProveSend(s)
    \/ \E s \in Callers, sourceId \in SourceIds : ExecuteBegin(s, sourceId)
    \/ \E s \in Callers : ExecuteFetch(s)
    \/ \E s \in Callers : ExecuteSend(s)

SpecProve == Init /\ [][NextProve]_vars

\* Calls of executeMessage, one after the other, on a bridge that moves.
NextExecute ==
    \/ ValidatorApproves
    \/ \E outcome \in {"success", "failure"}, keepFailure \in BOOLEAN :
          BridgeRecords(outcome, keepFailure)
    \/ \E hasWallet \in BOOLEAN, opts \in ExecuteMessageOptionChoices,
          messageHash \in ContractHashes :
          ExecuteMessage(hasWallet, opts, messageHash)
    \/ ApprovalPoll
    \/ ApprovalSleepDone
    \/ RelayMessages

SpecExecute == Init /\ [][NextExecute]_vars

\* The intervals a caller may configure for the approval wait: the default,
\* one below and one above the 30 s cap.
BackoffOptionChoices ==
    {ExecuteMessageOptions({}, 0, 0),
     ExecuteMessageOptions({"timeoutMs"}, 120000, 0),
     ExecuteMessageOptions({"timeoutMs", "pollIntervalMs"}, 20000, 4000),
     ExecuteMessageOptions({"timeoutMs", "pollIntervalMs"}, 120000, 40000)}

\* executeMessage waits for the validator's approval, which may come late
\* or never.
NextBackoff ==
    \/ ValidatorApproves
    \/ \E opts \in BackoffOptionChoices : ExecuteMessage(TRUE, opts, OuterHash)
    \/ ApprovalPoll
    \/ ApprovalSleepDone
    \/ RelayMessages

SpecBackoff == Init /\ [][NextBackoff]_vars

\* Two callers of one engine resolve keypair signers, their calls
\* interleaving at the awaits.
NextSigner ==
    \/ \E c \in Callers, keypairPath \in KeypairPaths : GetKeypairSigner(c, keypairPath)
    \/ \E c \in Callers : StoreKeypairSigner(c)

SpecSigner == Init /\ [][NextSigner]_vars

\* The accounts an initiate may have created.
RelayOutgoingAccounts ==
    {OutgoingAccount("Outgoing1", 42, "Sender1", OutgoingCall(Call(0, "1111", 0, "d09de08a"))),
     OutgoingAccount("Outgoing2", 1, "Sender2",
                     OutgoingTransfer("1111", "Sender2", "2222", 7, NoneCall))}

\* A message is initiated with some relay options, then executed through
\* the adapter, with the ref returned or with one that has no destination.
NextGas ==
    \/ \E outgoing \in RelayOutgoingAccounts, relay \in RelayOptionChoices :
          RelayInitiate(outgoing, relay)
    \/ \E ref \in {u_ref, [u_ref EXCEPT !.destination = [scheme |-> "", value |-> ""]]} :
          AdapterExecute(ref)
    \/ AdapterRelay
    \/ AdapterApprovalTimeout
    \/ ValidatorApproves
    \/ \E outcome \in {"success", "failure"}, keepFailure \in BOOLEAN :
          BridgeRecords(outcome, keepFailure)

SpecGas == Init /\ [][NextGas]_vars

\* The accounts a nested instruction may name: the CPI authority of
\* Sender1 and a recipient, with every pair of flags.
IxAccountChoices ==
    {IxAccount(pubkey, isWritable, isSigner) :
        pubkey \in {bridgeCpiAuthorityPda("Sender1"), "Recipient"},
        isWritable \in BOOLEAN, isSigner \in BOOLEAN}

\* Executes of call messages of either sender.
NextRelayInstruction ==
    \E sender \in SolAddresses, ixAccounts \in SeqUpTo(IxAccountChoices, MaxIxAccounts) :
        BuildRelayInstruction(sender, ixAccounts)

SpecRelayInstruction == Init /\ [][NextRelayInstruction]_vars

\* The two builders of the EVM-side message, on every account and gas limit.
NextHash ==
    \E outgoing \in OutgoingAccounts, gasLimit \in GasLimits :
        BuildMessage(outgoing, gasLimit)

SpecHash == Init /\ [][NextHash]_vars

\* Initiate calls on the two routes, one after the other.
NextInitiate ==
    \/ \E key \in IdempotencyKeys \cup {Undefined}, action \in SvmActions,
          relayMode \in RelayModes, random \in RandomSalts :
          InitiateSvm(key, action, relayMode, random)
    \/ \E key \in {Undefined, "k1"}, action \in EvmActions : InitiateEvm(key, action)

SpecInitiate == Init /\ [][NextInitiate]_vars

\* A message is initiated, then monitored on the SVM -> Base adapter while
\* the bridge on Base moves.
NextStatus ==
    \/ /\ m_pc = "none"
       /\ \E action \in {Action("call", "none", ""), Action("transfer", "native", "")} :
             InitiateSvm(Undefined, action, Undefined, "random1")
    \/ /\ m_pc = "none"
       /\ InitiateEvm(Undefined, Action("transfer", "token", "0xercA"))
    \/ /\ i_call.ref # NoRef
       /\ \E opts \in MonitorOptionChoices : MonitorCall(opts)
    \/ \E delay \in StartDelays : MonitorStart(delay)
    \/ \E d \in ProbeLatencies : StatusProbe(d)
    \/ \E d \in ProbeLatencies : ProbeThrow(d)
    \/ ConsumerPull
    \/ SleepDone
    \/ ValidatorApproves
    \/ \E outcome \in {"success", "failure"}, keepFailure \in BOOLEAN :
          BridgeRecords(outcome, keepFailure)

SpecStatus == Init /\ [][NextStatus]_vars

\* The two readers of a receipt, on every transaction and block number.
NextGenerate ==
    \/ \E txHash \in TxHashes, blockNumber \in 0..(MaxBlock + 1) :
          EvalGenerateProof(txHash, blockNumber)
    \/ \E txHash \in TxHashes : EvalExtractMessageInitiated(txHash)

SpecGenerate == Init /\ [][NextGenerate]_vars

\* Clients made from every configuration of a few adapters.
NextCreate ==
    \E adapters \in SeqUpTo(AdapterChainIds, MaxAdapters) : CreateBridgeClient(adapters)

SpecCreate == Init /\ [][NextCreate]_vars

\* One caller of the client beside one monitor stream, with probes and
\* adapter methods that may throw.
NextErrors ==
    \/ \E op \in ClientOps,
          route \in {Route("solana:mainnet", "eip155:8453"),
                     Route("eip155:10", "solana:mainnet")} : Invoke(1, op, route)
    \/ Pull(1)
    \/ \E outcome \in {"ok", "AdapterError"} : Resume(1, outcome)
    \/ MonitorCall(NoOptions)
    \/ MonitorStart(0)
    \/ \E st \in {Status("Executable", Undefined, Undefined, 0),
                   Status("Executed", "a", Undefined, 0),
                   Status("Failed", "a", "r", 0)} : ProbeReturn(st, 0)
    \/ \E d \in ProbeLatencies : ProbeThrow(d)
    \/ ConsumerPull
    \/ SleepDone

SpecErrors == Init /\ [][NextErrors]_vars

\* Two monitor streams of one ref, called and consumed in any order.
NextStreams ==
    \/ \E opts \in {NoOptions, MonitorOptions({"timeoutMs"}, 12000, 0)} :
          MonitorCall(opts)
    \/ \E delay \in StartDelays : MonitorStart(delay)
    \/ \E st \in {Status("Executable", Undefined, Undefined, 0),
                   Status("Executed", "a", Undefined, 0)} : ProbeReturn(st, 0)
    \/ ConsumerPull
    \/ SleepDone
    \/ SwitchStream

SpecStreams == Init /\ [][NextStreams]_vars

\* transfer and call on clients with and without a default relay.
NextWrap ==
    \/ \E req \in TransferInputs, defaultsRelay \in {Undefined, "auto", "none"} :
          ClientWrapper("transfer", req, defaultsRelay)
    \/ \E req \in CallInputs, defaultsRelay \in {Undefined, "auto", "none"} :
          ClientWrapper("call", req, defaultsRelay)

SpecWrap == Init /\ [][NextWrap]_vars

\* A Base -> SVM message is monitored while a relayer proves and executes it.
NextIncoming ==
    \/ \E ref \in EvmRefs : TakeRef(ref)
    \/ /\ v_ref # NoEvmRef
       /\ \E opts \in {NoOptions, MonitorOptions({"timeoutMs"}, 12000, 0)} :
              MonitorCall(opts)
    \/ \E delay \in StartDelays : MonitorStart(delay)
    \/ \E d \in ProbeLatencies : IncomingProbe(d)
    \/ ConsumerPull
    \/ SleepDone
    \/ AdvanceBaseBlock
    \/ ProveBegin("relayer", "0xtx1", [given |-> {}, sourceBlockNumber |-> 0])
    \/ ProveFetch("relayer")
    \/ ProveSend("relayer")
    \/ ExecuteBegin("relayer", [scheme |-> "evm:messageHash", value |-> "h1"])
    \/ ExecuteFetch("relayer")
    \/ ExecuteSend("relayer")

SpecIncoming == Init /\ [][NextIncoming]_vars

\* monitorMessageExecution polls while the validator approves the message
\* and the bridge runs it.
NextMonitorExecution ==
    \/ \E opts \in ExecuteMessageOptionChoices : MonitorMessageExecution(opts)
    \/ \E d \in ProbeLatencies : MonitorExecutionRead(d)
    \/ MonitorExecutionSleepDone
    \/ ValidatorApproves
    \/ \E outcome \in {"success", "failure"}, keep \in BOOLEAN :
          BridgeRecords(outcome, keep)

SpecMonitorExecution == Init /\ [][NextMonitorExecution]_vars

-----------------------------------------------------------------------------
(* The transition DAG and the status identity as the specification states  *)
(* them, independently of the code's isAllowedTransition, isTerminalStatus *)
(* and stableStatusKey.                                                    *)

TerminalTypes == {"Executed", "Failed", "Expired"}

DagEdges ==
    {<<"Unknown", "Initiated">>,
     <<"Initiated", "FinalizedOnSource">>, <<"Initiated", "Executable">>,
     <<"FinalizedOnSource", "Proven">>, <<"FinalizedOnSource", "Executable">>,
     <<"Proven", "Executable">>,
     <<"Executable", "Executing">>, <<"Executable", "Executed">>,
     <<"Executing", "Executed">>}

DagAllowed(from, to) ==
    \/ to = from
    \/ from \notin TerminalTypes /\ to \in {"Failed", "Expired"}
    \/ <<from, to>> \in DagEdges

\* The variant and its distinguishing fields, without the timestamp.
KeyFields(s) == <<s.type, s.tx, s.reason>>

Last(seq) == seq[Len(seq)]

\* The i-th probe result was handed to the consumer.
ProbeYielded(i) ==
    \E j \in 1..Len(m_yielded) :
        m_yielded[j] = [st |-> m_probes[i].st, t |-> m_probes[i].returned]

\* The probe results the stream accepted: all but one that raised
\* InvariantViolation.
AcceptedProbes ==
    IF m_pc = "invariant" THEN SubSeq(m_probes, 1, Len(m_probes) - 1) ELSE m_probes

KeysOf(seq) == [i \in 1..Len(seq) |-> stableStatusKey(seq[i].st)]

\* seq with every run of equal consecutive elements collapsed to one.
RECURSIVE Dedup(_)
Dedup(seq) ==
    IF Len(seq) <= 1 THEN seq
    ELSE LET rest == Dedup(SubSeq(seq, 1, Len(seq) - 1))
         IN IF seq[Len(seq)] = seq[Len(seq) - 1] THEN rest
            ELSE Append(rest, seq[Len(seq)])

\* seq with every element kept at its first occurrence only.
RECURSIVE FirstOccurrences(_)
FirstOccurrences(seq) ==
    IF Len(seq) = 0 THEN seq
    ELSE LET rest == FirstOccurrences(SubSeq(seq, 1, Len(seq) - 1))
         IN IF \E i \in 1..Len(rest) : rest[i] = seq[Len(seq)] THEN rest
            ELSE Append(rest, seq[Len(seq)])

-----------------------------------------------------------------------------
(* Claims about the transition relation and the monitor.                   *)

\* C1: in one stream every status yielded after the first is a self-loop or
\* a DAG successor of the status yielded before it, and a probe result that
\* is no allowed successor of the previously yielded status makes the stream
\* raise InvariantViolation without yielding that result.
C1_YieldsFollowDag ==
    /\ \A i \in 2..Len(m_yielded) :
          DagAllowed(m_yielded[i - 1].st.type, m_yielded[i].st.type)
    /\ (m_prev # NoStatus /\ ~DagAllowed(m_prev.type, m_next.type))
          <=> m_pc = "invariant"
    /\ m_pc = "invariant" =>
          /\ Last(m_probes).st = m_next
          /\ Last(m_yielded).st = m_prev
          /\ ~ProbeYielded(Len(m_probes))

\* C1 witness: the probe sequence [Unknown, Executed] has raised.
C1_Witness ==
    /\ m_pc = "invariant"
    /\ Len(m_probes) = 2
    /\ m_probes[1].st.type = "Unknown"
    /\ m_probes[2].st.type = "Executed"
    /\ Len(m_yielded) = 1

\* C2: isAllowedTransition(from, to) is true exactly for a self-loop, for
\* Failed or Expired from a non-terminal status, and for the listed DAG
\* edges; a terminal status has no transition to another status.
C2_TransitionTable == tr_allowed <=> DagAllowed(tr_from, tr_to)

\* C3 as claimed: a terminal probe result is the last one and the stream
\* completes normally on it.
C3_TerminalCompletesNormally ==
    \A i \in 1..Len(m_probes) :
        m_probes[i].st.type \in TerminalTypes =>
            i = Len(m_probes) /\ m_pc \in {"yielded", "done"}

\* C3 (amended): a terminal probe result is the last call of the probe; the
\* stream completes normally on it (after yielding it when its key is new)
\* when the transition is allowed, and raises InvariantViolation when it is
\* not.
C3_TerminalEndsStream ==
    \A i \in 1..Len(m_probes) :
        m_probes[i].st.type \in TerminalTypes =>
            /\ i = Len(m_probes)
            /\ IF m_prev # NoStatus /\ ~DagAllowed(m_prev.type, m_probes[i].st.type)
               THEN m_pc = "invariant"
               ELSE /\ m_pc \in {"yielded", "done"}
                    /\ m_pc = "yielded" => Last(m_yielded).st = m_probes[i].st

\* C3 witness: a stream that completed on Executed after earlier statuses.
C3_Witness ==
    /\ m_pc = "done"
    /\ Len(m_probes) >= 2
    /\ Last(m_probes).st.type = "Executed"
    /\ Last(m_yielded).st = Last(m_probes).st

\* C4 as claimed: nothing is polled or yielded once more than timeoutMs has
\* elapsed since the start, and a stream that is over past the budget without
\* a terminal status has raised Timeout.
C4_NothingPastBudget ==
    /\ \A i \in 1..Len(m_probes) :
          m_probes[i].called - m_start <= TimeoutMs(m_opts)
    /\ \A j \in 1..Len(m_yielded) :
          m_yielded[j].t - m_start <= TimeoutMs(m_opts)
    /\ (/\ m_pc \in {"done", "invariant", "timeout"}
        /\ now - m_start > TimeoutMs(m_opts)
        /\ \A i \in 1..Len(m_probes) : m_probes[i].st.type \notin TerminalTypes)
          => m_pc = "timeout"

\* C4 (amended): the probe is never called once more than timeoutMs has
\* elapsed since the start; Timeout is raised only past the budget and only
\* when no terminal status has been returned.
C4_NoPollPastBudget ==
    /\ \A i \in 1..Len(m_probes) :
          m_probes[i].called - m_start <= TimeoutMs(m_opts)
    /\ m_pc = "probing" => m_callAt - m_start <= TimeoutMs(m_opts)
    /\ m_pc = "timeout" =>
          /\ now - m_start > TimeoutMs(m_opts)
          /\ \A i \in 1..Len(m_probes) : m_probes[i].st.type \notin TerminalTypes

\* C4 witness: Timeout raised under the default budget, after a status was
\* yielded past it.
C4_Witness ==
    /\ m_pc = "timeout"
    /\ "timeoutMs" \notin m_opts.given
    /\ m_start > 0
    /\ \E j \in 1..Len(m_yielded) : m_yielded[j].t - m_start > DEFAULT_TIMEOUT_MS

\* C5 as claimed: the yielded keys are the distinct probed keys, each once, in
\* order of first occurrence.
C5_EachKeyOnce ==
    m_pc # "invariant" => KeysOf(m_yielded) = FirstOccurrences(KeysOf(m_probes))

\* C5 (amended): the yielded keys are the accepted probed keys with every run
\* of consecutive equal keys collapsed to one.
C5_OneYieldPerRun == KeysOf(m_yielded) = Dedup(KeysOf(AcceptedProbes))

\* C5 witness: a key yielded, replaced by another, and yielded again.
C5_Witness ==
    /\ Len(m_yielded) = 3
    /\ stableStatusKey(m_yielded[1].st) = stableStatusKey(m_yielded[3].st)
    /\ stableStatusKey(m_yielded[1].st) # stableStatusKey(m_yielded[2].st)

\* C6: a probe result is yielded only when its variant or distinguishing
\* fields differ from those of the previously yielded status, whatever the
\* timestamps; a poll that repeats the previous poll's key is not yielded.
C6_YieldOnlyOnKeyChange ==
    /\ \A j \in 2..Len(m_yielded) :
          KeyFields(m_yielded[j].st) # KeyFields(m_yielded[j - 1].st)
    /\ \A i \in 2..Len(m_probes) :
          KeyFields(m_probes[i].st) = KeyFields(m_probes[i - 1].st)
              => ~ProbeYielded(i)

\* C6 witness: two polls with the same key and different timestamps, the
\* second one not yielded.
C6_Witness ==
    \E i \in 2..Len(m_probes) :
        /\ KeyFields(m_probes[i].st) = KeyFields(m_probes[i - 1].st)
        /\ m_probes[i].st.at # m_probes[i - 1].st.at
        /\ ProbeYielded(i - 1)
        /\ ~ProbeYielded(i)

-----------------------------------------------------------------------------
(* Claims about the route registry and the client.                         *)

\* The hub EVM chain ids: Base mainnet and Base Sepolia.
HubChainIds == {"eip155:8453", "eip155:84532"}

HasHubEndpoint(route) ==
    route.sourceChain \in HubChainIds \/ route.destinationChain \in HubChainIds

\* C7: a route the registry accepts has a hub chain id as its source or its
\* destination; a route with no hub endpoint is rejected.
C7_AcceptedRoutesIncludeHub == rt_supported => HasHubEndpoint(rt_route)

\* C7 witness: the registry has rejected solana:mainnet -> eip155:10.
C7_Witness ==
    /\ rt_route = Route("solana:mainnet", "eip155:10")
    /\ ~rt_supported

\* C8: a client operation on a route with no hub endpoint fails with
\* UnsupportedRoute, and neither resolves nor caches a route adapter, nor
\* invokes one.
C8_NoHubRouteRefused ==
    \A s \in SlotIds :
        LET c == c_slots[s] IN
        (c.pc \notin {"free", "created"} /\ ~HasHubEndpoint(c.route)) =>
            /\ c.pc = "failed"
            /\ c.result = UnsupportedRoute
            /\ c.promise = NoPromise
            /\ c.method = "none"
            /\ c_cache[routeKey(c.route)] = NoPromise
            /\ c_resolverCalls[routeKey(c.route)] = 0

\* C8 witness: a monitor stream on a route without hub has failed on its
\* first pull, on a client that holds an adapter for another route.
C8_Witness ==
    /\ c_slots[1].op = "monitor"
    /\ c_slots[1].route = Route("solana:mainnet", "eip155:10")
    /\ c_slots[1].pc = "failed"
    /\ c_slots[1].result = UnsupportedRoute
    /\ c_cache[routeKey(Route("solana:mainnet", "eip155:8453"))].settled = "resolved"

\* C9: the resolver is called at most once per route key, and every call on
\* a key, whether it overlaps another or follows it, gets the one promise
\* the cache holds for the key.
C9_SingleFlight ==
    /\ \A key \in RouteKeys : c_resolverCalls[key] <= 1
    /\ \A s \in SlotIds :
          c_slots[s].promise # NoPromise =>
              /\ c_slots[s].promise = c_cache[routeKey(c_slots[s].route)]
              /\ c_slots[s].promise.inst = 1

\* C9 witness: two calls await the adapter of the same key at the same time.
C9_Witness ==
    /\ c_slots[1].pc = "awaiting"
    /\ c_slots[2].pc = "awaiting"
    /\ c_slots[1].op # c_slots[2].op
    /\ c_slots[1].route = c_slots[2].route
    /\ c_slots[1].promise = c_slots[2].promise
    /\ c_slots[1].promise.settled = "resolved"

-----------------------------------------------------------------------------
(* Claims about prove and execute on the Base -> SVM route.                *)

\* C10: a prove call that finds the incoming-message account of its message
\* hash in existence sends no transaction and returns the hash alone: the
\* call ends without error and without a proof transaction, and the account
\* and the transactions sent for the hash are what they were.
C10_ProveSkipsExistingMessage ==
    \A s \in Callers :
        LET c == p_calls[s] IN
        (c.op = "prove" /\ c.fetched \in {"proven", "executed"}) =>
            /\ c.pc = "done"
            /\ c.error = ""
            /\ c.signature = NoSignature
            /\ c.messageHash = Receipt(c.input).logs[Len(Receipt(c.input).logs)].messageHash
            /\ c.sent = 0

\* C10 witness: a second prove of a message whose first prove went through.
C10_Witness ==
    /\ p_calls["app"].op = "prove"
    /\ p_calls["app"].pc = "done"
    /\ p_calls["app"].signature = Signature("prove", "h1", 1)
    /\ p_calls["relayer"].op = "prove"
    /\ p_calls["relayer"].pc = "done"
    /\ p_calls["relayer"].messageHash = "h1"
    /\ p_calls["relayer"].fetched = "proven"
    /\ p_calls["relayer"].signature = NoSignature
    /\ p_calls["relayer"].sent = 0
    /\ p_proveTxs["h1"] = 1

\* C11: an execute call that finds no incoming-message account fails with
\* NotProven and sends no transaction; a call that sent a relayMessage
\* transaction found the account in existence and not executed.
C11_ExecuteNeedsProof ==
    \A s \in Callers :
        LET c == p_calls[s] IN
        c.op = "execute" =>
            /\ c.fetched = "absent" =>
                  c.pc = "failed" /\ c.error = "NotProven" /\ c.sent = 0
            /\ c.sent > 0 => c.fetched = "proven"
            /\ c.signature # NoSignature => c.sent = 1 /\ c.fetched = "proven"

\* C11 witness: an execute before the prove, refused, beside an execute that
\* relayed the other message.
C11_Witness ==
    /\ p_calls["app"].op = "execute"
    /\ p_calls["app"].fetched = "absent"
    /\ p_calls["app"].error = "NotProven"
    /\ p_calls["relayer"].op = "execute"
    /\ p_calls["relayer"].signature = Signature("relay", "h2", 1)
    /\ p_relayTxs = [h \in MessageHashes |-> IF h = "h2" THEN 1 ELSE 0]

\* C12: an execute call that finds the incoming message marked executed
\* fails with AlreadyExecuted and sends no transaction.
C12_SecondExecuteRefused ==
    \A s \in Callers :
        LET c == p_calls[s] IN
        (c.op = "execute" /\ c.fetched = "executed") =>
            c.pc = "failed" /\ c.error = "AlreadyExecuted" /\ c.sent = 0

\* C12 witness: a second execute after the one that relayed the message.
C12_Witness ==
    /\ p_calls["app"].op = "execute"
    /\ p_calls["app"].signature = Signature("relay", "h1", 1)
    /\ p_calls["relayer"].op = "execute"
    /\ p_calls["relayer"].messageHash = "h1"
    /\ p_calls["relayer"].error = "AlreadyExecuted"
    /\ p_relayTxs["h1"] = 1

-----------------------------------------------------------------------------
(* Claims about BaseEngine.executeMessage.                                 *)

\* C13 as stated: a call of executeMessage made when successes(outerHash)
\* is true returns the outer hash, without a validMessages poll and
\* without a relayMessages transaction.
C13_SucceededReturnsOuterHash ==
    (x_call.n > 0 /\ x_call.onCall.successes) =>
        /\ x_call.pc = "done"
        /\ x_call.result = OuterHash
        /\ x_call.polls = <<>>
        /\ x_call.sent = 0

\* C13, amended: on an engine with a wallet client and a private key, a call
\* made when successes(outerHash) is true returns the outer hash without a
\* validMessages poll and without a relayMessages transaction; on an engine
\* without them the call fails before it reads the bridge.
C13_SucceededReturnsOuterHashWithWallet ==
    /\ (x_call.n > 0 /\ x_call.hasWallet /\ x_call.onCall.successes) =>
          /\ x_call.pc = "done"
          /\ x_call.error = NoError
          /\ x_call.result = OuterHash
          /\ x_call.polls = <<>>
          /\ x_call.waits = <<>>
          /\ x_call.sent = 0
    /\ (x_call.n > 0 /\ ~x_call.hasWallet) =>
          /\ x_call.pc = "failed"
          /\ x_call.read = NoRead
          /\ x_call.polls = <<>>
          /\ x_call.sent = 0

\* C13 witness: a second call, after the first one relayed the message and
\* the bridge recorded the success (and kept an earlier failure).
C13_Witness ==
    /\ x_call.n = 2
    /\ x_call.hasWallet
    /\ x_call.onCall.successes
    /\ x_call.onCall.failures
    /\ x_call.pc = "done"
    /\ x_call.result = OuterHash
    /\ e_relayTxs = 1

\* C14 as stated: a call that reads failures(outerHash) true and
\* successes(outerHash) false raises MessageFailed and sends no
\* relayMessages transaction.
C14_FailedRaisesMessageFailed ==
    (x_call.n > 0 /\ x_call.read.failures /\ ~x_call.read.successes) =>
        /\ x_call.pc = "failed"
        /\ x_call.error.name = "MessageFailed"
        /\ x_call.sent = 0

\* C15 as stated: a relayMessages transaction is sent only after the
\* multicall answered getMessageHash(msg) = outerHash and a validMessages
\* poll answered true; a mismatch raises InvariantViolation and nothing is
\* sent; a call sends at most one transaction.
C15_RelayAfterHashCheckAndApproval ==
    LET mismatch == sanitizeHex(x_call.read.messageHash) # sanitizeHex(OuterHash)
    IN /\ x_call.sent > 0 =>
             /\ ~mismatch
             /\ Len(x_call.polls) > 0
             /\ x_call.polls[Len(x_call.polls)].approved
       /\ (x_call.n > 0 /\ x_call.hasWallet /\ mismatch
             /\ ~x_call.read.successes /\ ~x_call.read.failures) =>
             /\ x_call.pc = "failed"
             /\ x_call.error.name = "InvariantViolation"
             /\ x_call.sent = 0
       /\ x_call.sent <= 1

\* C20: for every outgoing message account and gas limit, the helper
\* buildEvmIncomingMessage and BaseEngine.buildEvmMessage give the same
\* innerHash and the same outerHash, and the two hashes are the same for
\* every gas limit and for every account with the same nonce, address,
\* sender and encoded payload.
C20_BuildersAgree ==
    /\ h_helper.innerHash = h_engine.innerHash
    /\ h_helper.outerHash = h_engine.outerHash
    /\ \A outgoing \in OutgoingAccounts, gasLimit \in GasLimits :
         ( /\ outgoing.nonce = h_outgoing.nonce
           /\ outgoing.address = h_outgoing.address
           /\ outgoing.sender = h_outgoing.sender
           /\ encodeOutgoingMessagePayload(outgoing.message)
                = encodeOutgoingMessagePayload(h_outgoing.message) )
         => /\ buildEvmIncomingMessage(outgoing, gasLimit).innerHash
                 = h_helper.innerHash
            /\ buildEvmIncomingMessage(outgoing, gasLimit).outerHash
                 = h_helper.outerHash
            /\ buildEvmMessage(outgoing, gasLimit).innerHash = h_engine.innerHash
            /\ buildEvmMessage(outgoing, gasLimit).outerHash = h_engine.outerHash

\* A transfer with a call has been hashed by both builders under the
\* default gas limit.
C20_Witness ==
    /\ h_outgoing.message.kind = "Transfer"
    /\ h_outgoing.message.call # NoneCall
    /\ h_gasLimit = 100000
    /\ h_helper.evmMessage.ty = 2
    /\ h_engine.evmMessage.ty = 2

\* C16: an SVM-side initiate given an idempotency key k derives the salt
\* keccak256(k) and the outgoing PDA from (OUTGOING_MESSAGE_SEED,
\* keccak256(k)); two initiate calls with the same key, route and action
\* derive the same outgoing PDA.
C16_SaltAndPdaFromKey ==
    LET hashed == [k \in IdempotencyKeys |->
                     CASE k = "k1" -> "keccak(0x6b31)"
                       [] k = "k2" -> "keccak(0x6b32)"
                       [] k = "0x6b31" -> "keccak(0x6b31)"]
        keyed(call) ==
            call.route = "svm->base" /\ call.key # Undefined /\ call.sent > 0
    IN /\ keyed(i_call) =>
            /\ i_call.salt = hashed[i_call.key]
            /\ i_call.pda
                 = "pda(OUTGOING_MESSAGE_SEED," \o hashed[i_call.key] \o ")"
       /\ ( /\ keyed(i_prev)
            /\ keyed(i_call)
            /\ i_call.key = i_prev.key
            /\ i_call.action = i_prev.action )
          => i_call.pda = i_prev.pda

\* Two calls with the key "k2" and the same action have derived an address.
C16_Witness ==
    /\ i_prev.route = "svm->base"
    /\ i_call.route = "svm->base"
    /\ i_prev.key = "k2"
    /\ i_call.key = "k2"
    /\ i_call.action = i_prev.action
    /\ i_prev.sent = 1
    /\ i_call.sent = 1
    /\ i_call.pda = i_prev.pda
    /\ i_call.pda # ""

\* C17: when an SVM -> EVM initiate with an idempotency key has committed, a
\* second initiate with the same key, route and action returns the same
\* MessageRef and creates no second outgoing message.
C17_RetryReturnsSameRef ==
    ( /\ i_prev.route = "svm->base"
      /\ i_prev.key # Undefined
      /\ i_prev.sent = 1
      /\ i_prev.error = NoError
      /\ i_call.route = "svm->base"
      /\ i_call.key = i_prev.key
      /\ i_call.action = i_prev.action )
    => /\ i_call.error = NoError
       /\ i_call.ref = i_prev.ref
       /\ Cardinality({account \in s_outgoing : account.address = i_prev.pda}) = 1

\* C19: initiate raises UnsupportedAction and submits no transaction when
\* the action is not supported for the route: on SVM -> EVM a token transfer
\* whose mint has no mapping, on EVM -> SVM anything but a token transfer
\* with a mapped ERC20.
C19_UnsupportedBeforeAnyTransaction ==
    [][ LET unsupported ==
              \/ /\ i_call'.route = "svm->base"
                 /\ i_call'.action.kind = "transfer"
                 /\ i_call'.action.asset.kind = "token"
                 /\ i_call'.action.asset.address \notin {"mintA"}
              \/ /\ i_call'.route = "base->svm"
                 /\ i_call'.action # Action("transfer", "token", "0xercA")
        IN (i_n' # i_n /\ unsupported)
           => /\ i_call'.error = BridgeError("UnsupportedAction")
              /\ i_call'.sent = 0
              /\ i_call'.ref = NoRef
              /\ i_txs' = i_txs
              /\ s_outgoing' = s_outgoing ]_vars

\* After a transfer that was sent, a token transfer of an unmapped mint has
\* been refused.
C19_Witness ==
    /\ i_prev.sent = 1
    /\ i_txs = 1
    /\ i_call.route = "svm->base"
    /\ i_call.action = Action("transfer", "token", "mintB")
    /\ i_call.error = BridgeError("UnsupportedAction")
    /\ i_call.sent = 0

\* C18: for an SVM -> EVM MessageRef returned by initiate, with the outer
\* hash populated, a monitor stream reaches Executed: when the bridge has
\* recorded successes(outerHash) = true (and no failure, before or after)
\* before the timeout has elapsed, the stream does not end by Timeout or by
\* InvariantViolation; it completes with Executed as the last status
\* yielded.
C18_MonitorReachesExecuted ==
    [][ ( /\ i_call.ref.destination.scheme = "evm:bridgeOuterHash"
          /\ m_pc \notin {"done", "timeout", "invariant", "probeError"}
          /\ m_pc' \in {"done", "timeout", "invariant"}
          /\ e_successes
          /\ ~e_failures
          /\ \A i \in 1..Len(m_probes) : m_probes[i].st.type # "Failed"
          /\ now - m_start <= TimeoutMs(m_opts) )
        => /\ m_pc' = "done"
           /\ m_yielded' # <<>>
           /\ m_yielded'[Len(m_yielded')].st.type = "Executed" ]_vars

\* C18, as the code has it: a poll of the stream that reads successes =
\* true and failures = false yields Executed, and one that reads failures =
\* true yields Failed whatever successes reads; Executed, once yielded, is
\* the last status, after which the stream only completes: it polls no more
\* and raises nothing.
C18_PollThatReadsSuccessYieldsExecuted ==
    /\ [][ ( /\ i_call.ref.destination.scheme = "evm:bridgeOuterHash"
             /\ m_pc = "probing"
             /\ Len(m_probes') = Len(m_probes) + 1 )
           => /\ m_pc' = "yielded"
                   <=> (e_failures \/ e_successes \/ m_prev = NoStatus)
              /\ (e_successes /\ ~e_failures)
                   => /\ m_pc' = "yielded"
                      /\ m_yielded'[Len(m_yielded')].st.type = "Executed"
              /\ e_failures
                   => /\ m_pc' = "yielded"
                      /\ m_yielded'[Len(m_yielded')].st.type = "Failed" ]_vars
    /\ []( ( /\ i_call.ref.destination.scheme = "evm:bridgeOuterHash"
             /\ m_yielded # <<>>
             /\ m_yielded[Len(m_yielded)].st.type = "Executed" )
           => /\ m_pc \in {"yielded", "done"}
              /\ m_probes[Len(m_probes)].st.type = "Executed" )

\* A stream that first saw Executable has yielded Executed and completed.
C18_Witness ==
    /\ i_call.ref.destination.scheme = "evm:bridgeOuterHash"
    /\ m_pc = "done"
    /\ Len(m_yielded) = 2
    /\ m_yielded[1].st.type = "Executable"
    /\ m_yielded[2].st.type = "Executed"
    /\ e_successes

\* C21: generateProof raises NotFinal, and reads no proof from the bridge
\* contract, whenever the block number it is given is less than the block
\* number of the transaction's MessageInitiated log.
C21_StaleRaisesNotFinal ==
    LET logs == Receipt(g_proof.txHash).logs
    IN (\E i \in 1..Len(logs) :
           /\ logs[i].eventName = "MessageInitiated"
           /\ g_proof.blockNumber < logs[i].blockNumber)
       => /\ g_proof.error = "NotFinal"
          /\ g_proof.proofReads = 0

\* C22: a receipt with no MessageInitiated event, and one with more than
\* one, raise ProofNotAvailable in generateProof and in
\* extractMessageInitiated; an event is returned only from a receipt with
\* exactly one.
C22_WrongEventCountRaisesProofNotAvailable ==
    /\ ( /\ Receipt(g_proof.txHash).status = "success"
         /\ MessageInitiatedCount(g_proof.txHash) # 1
         /\ \A i \in 1..Len(Receipt(g_proof.txHash).logs) :
              g_proof.blockNumber >= Receipt(g_proof.txHash).logs[i].blockNumber )
       => g_proof.error = "ProofNotAvailable"
    /\ MessageInitiatedCount(g_extract.txHash) # 1
       => g_extract.error = "ProofNotAvailable"
    /\ g_proof.event # NoEvent => MessageInitiatedCount(g_proof.txHash) = 1
    /\ g_extract.event # NoEvent => MessageInitiatedCount(g_extract.txHash) = 1

\* C23: constructing a client with two chain adapters that report the same
\* chain id raises ConfigError, and no client is returned.
C23_DuplicateChainRaisesConfigError ==
    (\E i \in 1..Len(k_config), j \in 1..Len(k_config) :
        i # j /\ k_config[i] = k_config[j])
    => /\ k_result.error.name = "ConfigError"
       /\ ~k_result.made

\* C24: errors are propagated, never swallowed.  A probe that raises ends
\* the monitor stream with that error: nothing is yielded for it, and the
\* stream neither polls nor yields afterwards.  A client call whose adapter
\* method raised fails with the adapter's error, and a call that ended
\* normally had an adapter method that ended normally.
C24_ErrorsPropagate ==
    /\ [][ (m_pc = "probing" /\ m_pc' # "probing" /\ m_probes' = m_probes)
           => (m_pc' = "probeError" /\ m_yielded' = m_yielded) ]_vars
    /\ [][ m_pc = "probeError"
           => /\ m_pc' = "probeError"
              /\ m_probes' = m_probes
              /\ m_yielded' = m_yielded ]_vars
    /\ [][ ( /\ c_slots[1].pc = "awaiting"
             /\ c_slots[1].promise.settled = "resolved"
             /\ c_slots'[1].pc # "awaiting" )
           => /\ c_slots'[1].method = AdapterMethod(c_slots[1].op)
              /\ c_slots'[1].result \in {"ok", "AdapterError"}
              /\ c_slots'[1].pc = "failed" <=> c_slots'[1].result = "AdapterError"
              /\ c_slots'[1].pc = "done" <=> c_slots'[1].result = "ok" ]_vars

\* A stream that had yielded a status was ended by its probe's error, and
\* a client monitor call failed with its adapter's error.
C24_Witness ==
    /\ m_pc = "probeError"
    /\ Len(m_yielded) = 1
    /\ Len(m_probes) = 2
    /\ c_slots[1].op = "monitor"
    /\ c_slots[1].pc = "failed"
    /\ c_slots[1].result = "AdapterError"

\* C25: monitor is lazy and restartable.  No probe is called before the
\* consumer first pulls; each stream starts its clock at its own first
\* pull, polls only within its own budget, and yields its first probe
\* result whatever another stream of the same ref has yielded; a step of
\* one stream leaves the other stream as it was.
C25_LazyAndFresh ==
    /\ [](\A stream \in {LiveStream, r_other} :
            /\ stream.pc \in {"none", "created"}
                 => stream.probes = <<>> /\ stream.yielded = <<>>
            /\ stream.probes # <<>>
                 => /\ stream.probes[1].called = stream.start
                    /\ stream.yielded # <<>>
                    /\ stream.yielded[1].st = stream.probes[1].st
                    /\ stream.yielded[1].t = stream.probes[1].returned
            /\ \A i \in 1..Len(stream.probes) :
                 stream.probes[i].called - stream.start <= TimeoutMs(stream.opts))
    /\ [][r_live' = r_live => r_other' = r_other]_vars

\* The second stream was called after the first had yielded Executed and
\* completed, started its own clock later, and yielded Executed again.
C25_Witness ==
    /\ r_live = 2
    /\ r_other.pc = "done"
    /\ r_other.yielded # <<>>
    /\ r_other.yielded[1].st.type = "Executed"
    /\ m_yielded # <<>>
    /\ m_yielded[1].st.type = "Executed"
    /\ m_start > r_other.start

\* C26: transfer and call are thin wrappers over request: the request that
\* client.transfer(r) or client.call(r) hands to the adapter's initiate is
\* the BridgeRequest that packages r's own fields (route, the action,
\* idempotencyKey, relay, metadata), which is what client.request hands on
\* for it.
C26_WrapperHandsPackagedRequest ==
    w_op \in {"transfer", "call"}
    => w_handed = [route |-> w_input.route,
                   action |-> [kind |-> w_op, asset |-> w_input.asset,
                               amount |-> w_input.amount,
                               recipient |-> w_input.recipient,
                               call |-> w_input.call],
                   idempotencyKey |-> w_input.idempotencyKey,
                   relay |-> w_input.relay,
                   metadata |-> w_input.metadata]

\* C26, as the code has it: the request handed to initiate packages r's
\* route, action fields, idempotencyKey and metadata unchanged, and its
\* relay is r's relay when r has one and the client's default relay
\* otherwise; it is the packaging of r's own fields whenever r has a relay
\* or the client has no default relay.
C26_WrapperAppliesDefaultRelay ==
    w_op \in {"transfer", "call"}
    => /\ w_handed.route = w_input.route
       /\ w_handed.action = [kind |-> w_op, asset |-> w_input.asset,
                             amount |-> w_input.amount,
                             recipient |-> w_input.recipient,
                             call |-> w_input.call]
       /\ w_handed.idempotencyKey = w_input.idempotencyKey
       /\ w_handed.metadata = w_input.metadata
       /\ w_input.relay # Undefined => w_handed.relay = w_input.relay
       /\ w_input.relay = Undefined => w_handed.relay = w_defaults

\* A transfer without relay options, on a client whose default relay is
\* "none", was handed on with that relay.
C26_Witness ==
    /\ w_op = "transfer"
    /\ w_input.relay = Undefined
    /\ w_defaults = "none"
    /\ w_handed.relay = "none"
    /\ w_handed.action.call = "callA"

\* C27: SVM -> EVM status returns Unknown for a MessageRef without an
\* evm:bridgeOuterHash destination; otherwise, the two flags of the bridge
\* being exclusive, Executed when successes(outerHash) is true, Failed when
\* failures(outerHash) is true, and Executable when neither is set.
C27_StatusFromFlags ==
    [][ (m_pc = "probing" /\ Len(m_probes') = Len(m_probes) + 1)
        => LET st == m_probes'[Len(m_probes')].st
               populated == i_call.ref.destination.scheme = "evm:bridgeOuterHash"
           IN /\ ~populated => st.type = "Unknown"
              /\ (populated /\ ~(e_successes /\ e_failures))
                   => /\ e_successes
                         => /\ st.type = "Executed"
                            /\ st.tx = i_call.ref.destination.value
                      /\ e_failures => st.type = "Failed"
                      /\ (~e_successes /\ ~e_failures) => st.type = "Executable" ]_vars

\* One stream has read Executable and then Failed for a populated ref.
C27_Witness ==
    /\ i_call.ref.destination.scheme = "evm:bridgeOuterHash"
    /\ Len(m_probes) = 2
    /\ m_probes[1].st.type = "Executable"
    /\ m_probes[2].st.type = "Failed"
    /\ e_failures
    /\ ~e_successes

\* C28: EVM -> SVM status reads the incoming-message account at the PDA of
\* the message hash and returns Initiated when the account is absent,
\* Executed when it exists with executed = true, and Executable when it
\* exists with executed = false.
C28_StatusFromIncomingAccount ==
    [][ ( /\ m_pc = "probing"
          /\ Len(m_probes') = Len(m_probes) + 1
          /\ v_ref.source.scheme = "evm:messageHash" )
        => LET st == m_probes'[Len(m_probes')].st
               account == p_incoming[v_ref.source.value]
           IN /\ account = "absent"
                 => st.type = "Initiated" /\ st.tx = v_ref.txHash
              /\ account = "executed" => st.type = "Executed"
              /\ account = "proven" => st.type = "Executable" ]_vars

\* One stream has read Initiated, Executable and Executed.
C28_Witness ==
    /\ v_ref = EvmRef("evm:messageHash", "h1", "0xtx1")
    /\ Len(m_probes) = 3
    /\ m_probes[1].st.type = "Initiated"
    /\ m_probes[2].st.type = "Executable"
    /\ m_probes[3].st.type = "Executed"
    /\ p_incoming["h1"] = "executed"

\* C30: when the incoming-message account goes from absent to executed
\* between two consecutive polls of one stream, the stream raises
\* InvariantViolation for the jump Initiated -> Executed and does not
\* yield Executed.
C30_JumpToExecutedRaises ==
    [][ ( /\ m_pc = "probing"
          /\ Len(m_probes') = Len(m_probes) + 1
          /\ v_ref.source.scheme = "evm:messageHash"
          /\ m_probes # <<>>
          /\ m_probes[Len(m_probes)].st.type = "Initiated"
          /\ p_incoming[v_ref.source.value] = "executed" )
        => /\ m_pc' = "invariant"
           /\ m_yielded' = m_yielded
           /\ m_yielded[Len(m_yielded)].st.type = "Initiated" ]_vars

\* A stream that yielded Initiated has raised InvariantViolation on reading
\* Executed at its second poll, the relayer having proven and executed.
C30_Witness ==
    /\ m_pc = "invariant"
    /\ Len(m_probes) = 2
    /\ m_probes[1].st.type = "Initiated"
    /\ m_probes[2].st.type = "Executed"
    /\ Len(m_yielded) = 1
    /\ p_proveTxs["h1"] = 1
    /\ p_relayTxs["h1"] = 1

\* C29 as stated: monitorExecution returns only after a poll has observed
\* successes(outerHash) = true; when no poll observes it within timeoutMs
\* it stops polling and raises Timeout.
C29_ReturnsOnSuccessElseTimeout ==
    /\ y_call.pc = "returned" =>
          /\ y_call.polls # <<>>
          /\ y_call.polls[Len(y_call.polls)].successes
    /\ y_call.pc = "failed" =>
          /\ \A i \in 1..Len(y_call.polls) : ~y_call.polls[i].successes
          /\ y_call.error.name = "Timeout"

\* C31 as stated: the wait before the first re-poll of validMessages is the
\* configured interval, each later wait is 1.5 times the one before (or
\* the 30 s cap), and no wait between two polls exceeds 30 s.
C31_BackoffAsStated ==
    LET polls == x_call.polls
        gap(i) == polls[i + 1].at - polls[i].at
    IN /\ Len(polls) >= 2 => gap(1) = ApprovalIntervalMs(x_call.opts)
       /\ \A i \in 1..(Len(polls) - 2) :
             \/ 2 * gap(i + 1) = 3 * gap(i)
             \/ 3 * gap(i) >= 2 * MAX_APPROVAL_INTERVAL_MS
                  /\ gap(i + 1) = MAX_APPROVAL_INTERVAL_MS
       /\ \A i \in 1..(Len(polls) - 1) : gap(i) <= MAX_APPROVAL_INTERVAL_MS

\* C31: the wait before the first re-poll of validMessages is the
\* configured interval, whatever its size; each later wait is the lesser
\* of 30 s and 1.5 times the one before rounded down to a whole
\* millisecond; so no wait after the first exceeds 30 s, and none at all
\* when the configured interval is at most 30 s.
C31_BackoffFlooredAndCapped ==
    LET polls == x_call.polls
        gap(i) == polls[i + 1].at - polls[i].at
    IN /\ Len(polls) >= 2 => gap(1) = ApprovalIntervalMs(x_call.opts)
       /\ \A i \in 1..(Len(polls) - 2) :
             gap(i + 1) = Min((3 * gap(i)) \div 2, MAX_APPROVAL_INTERVAL_MS)
       /\ \A i \in 2..(Len(polls) - 1) : gap(i) <= MAX_APPROVAL_INTERVAL_MS
       /\ ApprovalIntervalMs(x_call.opts) <= MAX_APPROVAL_INTERVAL_MS
             => \A i \in 1..(Len(polls) - 1) : gap(i) <= MAX_APPROVAL_INTERVAL_MS
       /\ \A i \in 1..Len(x_call.waits) :
             i < Len(polls) => x_call.waits[i] = gap(i)

\* A wait from the default interval has grown to the cap: polls at 0, 5000,
\* 12500, 23750, 40625, 65937 and 95937 ms, the sixth wait rounded down
\* from 25312.5 ms.
C31_Witness ==
    /\ Len(x_call.polls) = 7
    /\ x_call.polls[6].at - x_call.polls[5].at = 25312
    /\ x_call.polls[7].at - x_call.polls[6].at = MAX_APPROVAL_INTERVAL_MS
    /\ ApprovalIntervalMs(x_call.opts) = DEFAULT_MONITOR_POLL_INTERVAL_MS

\* C32 as stated: the keypair-signer cache is filled under single flight:
\* the key file of a path is read once however many first resolutions run
\* at the same time, they all resolve to the one signer instance, and an
\* entry once inserted is never replaced.
C32_SingleFlightSignerCache ==
    \A path \in KeypairPaths :
        /\ q_loads[path] <= 1
        /\ q_sets[path] <= 1
        /\ \A c, d \in Callers :
              ( /\ q_calls[c].pc = "done" /\ q_calls[c].path = path
                /\ q_calls[d].pc = "done" /\ q_calls[d].path = path )
              => q_calls[c].signer = q_calls[d].signer

\* C33: the SVM -> EVM adapter's execute ignores the gas limit recorded at
\* initiation: the IncomingMessage it hands to relayMessages carries the
\* engine's default gas limit 100000, whatever derived.gasLimit of the ref
\* holds and whatever gas limit the pay-for-relay instruction was given;
\* its hash is still the ref's destination hash.
C33_ExecuteRelaysDefaultGasLimit ==
    u_exec.sent > 0 =>
        /\ u_exec.built.evmMessage.gasLimit = 100000
        /\ u_exec.built.outerHash = u_ref.destination.value
        /\ u_paid # 0 => ToString(u_paid) = u_ref.gasLimit

\* A message whose relay was paid for 123456 gas, and whose ref records
\* it, has been relayed.
C33_Witness ==
    /\ u_exec.sent = 1
    /\ u_ref.gasLimit = "123456"
    /\ u_paid = 123456
    /\ u_exec.built.evmMessage.gasLimit # u_paid

\* C34: monitorExecution never inspects failures(outerHash): a read made
\* while the destination records the message as failed and not successful
\* sends the call to sleep for another poll, and the call ends only once
\* timeoutMs has elapsed, with the timeout error and never MessageFailed.
C34_FailedMessagePolledUntilTimeout ==
    /\ [][ ( /\ y_call.pc = "reading"
             /\ y_call' # y_call
             /\ e_failures /\ ~e_successes )
           => y_call'.pc = "sleeping" /\ y_call'.error = NoError ]_vars
    /\ [](y_call.pc = "failed" =>
             /\ y_call.error = ErrMonitorTimeout(MonitorExecutionTimeoutMs(y_call.opts))
             /\ y_call.error.name # "MessageFailed"
             /\ now - y_call.start > MonitorExecutionTimeoutMs(y_call.opts)
             /\ y_call.polls # <<>>)

\* A call with the default options has read successes thirteen times, the
\* message recorded as failed at each read, and has timed out.
C34_Witness ==
    /\ y_call.pc = "failed"
    /\ Len(y_call.polls) = 13
    /\ \A i \in 1..13 : y_call.polls[i].failures /\ ~y_call.polls[i].successes
    /\ e_failures /\ ~e_successes

\* C35: a route resolution that fails leaves its rejected promise in the
\* adapter cache for the lifetime of the client: the entry never changes,
\* the resolver is not invoked again for the key, and every later operation
\* on the key awaits that promise and fails with its error, no adapter
\* method being invoked.
C35_RejectedResolutionStaysCached ==
    /\ [][ \A key \in RouteKeys :
              c_cache[key].settled = "rejected" =>
                  /\ c_cache'[key] = c_cache[key]
                  /\ c_resolverCalls'[key] = c_resolverCalls[key] ]_vars
    /\ [](\A s \in SlotIds :
             LET c == c_slots[s]
                 key == routeKey(c.route)
             IN (c.pc \in {"awaiting", "done", "failed"}
                   /\ supportsBridgeRoute(c.route)
                   /\ c_cache[key].settled = "rejected") =>
                    /\ c.promise = c_cache[key]
                    /\ c.promise.inst = 1
                    /\ c_resolverCalls[key] = 1
                    /\ c.pc # "done"
                    /\ c.method = "none"
                    /\ c.pc = "failed" => c.result = UnsupportedRoute)

\* Two operations on a route to Base Sepolia, for which no chain adapter is
\* registered, have failed on the one rejected promise of the cache.
C35_Witness ==
    /\ c_slots[1].route = Route("solana:mainnet", "eip155:84532")
    /\ c_slots[2].route = Route("solana:mainnet", "eip155:84532")
    /\ c_slots[1].op = "status" /\ c_slots[2].op = "monitor"
    /\ c_slots[1].pc = "failed" /\ c_slots[2].pc = "failed"
    /\ c_slots[1].promise = c_slots[2].promise
    /\ c_slots[1].promise.settled = "rejected"
    /\ c_resolverCalls["solana:mainnet->eip155:84532"] = 1

\* C36: the existence check of the incoming-message account and the
\* submission of the prove transaction are not one step: a prove call that
\* read the account as absent submits its transaction whatever has landed
\* since, so two prove calls for one message that both checked before
\* either transaction landed have both submitted a prove transaction.
C36_ConcurrentProvesBothSubmit ==
    /\ [][ \A s \in Callers :
              ( /\ p_calls[s].op = "prove" /\ p_calls[s].pc = "sending"
                /\ p_calls'[s] # p_calls[s] )
              => /\ p_calls'[s].sent = 1
                 /\ p_proveTxs'[p_calls[s].messageHash]
                       = p_proveTxs[p_calls[s].messageHash] + 1 ]_vars
    /\ [](\A s, t \in Callers :
             ( /\ s # t
               /\ p_calls[s].op = "prove" /\ p_calls[t].op = "prove"
               /\ p_calls[s].messageHash = p_calls[t].messageHash
               /\ p_calls[s].fetched = "absent" /\ p_calls[t].fetched = "absent"
               /\ p_calls[s].pc \in {"done", "failed"}
               /\ p_calls[t].pc \in {"done", "failed"} )
             => /\ p_calls[s].sent = 1 /\ p_calls[t].sent = 1
                /\ p_proveTxs[p_calls[s].messageHash] >= 2)

\* Both callers read the account of h1 as absent and both sent a prove
\* transaction: the first created the account, the second failed on it.
C36_Witness ==
    /\ p_calls["app"].op = "prove" /\ p_calls["relayer"].op = "prove"
    /\ p_calls["app"].messageHash = "h1" /\ p_calls["relayer"].messageHash = "h1"
    /\ p_calls["app"].fetched = "absent" /\ p_calls["relayer"].fetched = "absent"
    /\ p_calls["app"].signature = Signature("prove", "h1", 1)
    /\ p_calls["relayer"].pc = "failed"
    /\ p_calls["relayer"].sent = 1
    /\ p_proveTxs["h1"] = 2

\* C37 as stated: in the relayMessage instruction that execute submits,
\* every remaining account whose address is the bridge CPI authority PDA is
\* read-only: it is passed neither as writable nor as signer.
C37_CpiAuthorityReadOnly ==
    \A i \in 1..Len(a_ix.remaining) :
        a_ix.remaining[i].address = bridgeCpiAuthorityPda(a_ix.sender)
            => a_ix.remaining[i].role = "READONLY"

\* C38: the transaction of an SVM -> EVM initiate holds the pay-for-relay
\* instruction, once and after the bridge instruction, if and only if the
\* request's relay mode is auto or is omitted; with mode manual or none it
\* holds the bridge instruction alone.
C38_PayForRelayIffAuto ==
    (i_call.route = "svm->base" /\ i_call.sent > 0) =>
        /\ i_call.relayMode \in {Undefined, "auto"}
              => i_call.ixs = <<SvmEngineOperation(i_call.action), "payForRelay">>
        /\ i_call.relayMode \in {"manual", "none"}
              => i_call.ixs = <<SvmEngineOperation(i_call.action)>>

\* A second message has been initiated, with mode manual: its transaction
\* went through with the bridge instruction alone.
C38_Witness ==
    /\ i_call.route = "svm->base"
    /\ i_call.relayMode = "manual"
    /\ i_call.sent = 1
    /\ i_call.error = NoError
    /\ Len(i_call.ixs) = 1
    /\ i_txs = 2

\* C39: the first status a monitor stream observes is yielded without any
\* transition check, whatever its type; when it is terminal the stream
\* yields it and completes, getStatus() having been called once.
C39_FirstStatusYieldedUnchecked ==
    /\ [][ (m_pc = "probing" /\ m_probes = <<>> /\ Len(m_probes') = 1)
           => /\ m_pc' = "yielded"
              /\ m_yielded' = <<[st |-> m_probes'[1].st, t |-> now']>> ]_vars
    /\ [][ ( /\ m_pc = "yielded" /\ Len(m_probes) = 1
             /\ m_probes[1].st.type \in TerminalTypes
             /\ m_pc' # m_pc )
           => m_pc' = "done" /\ m_probes' = m_probes /\ m_yielded' = m_yielded ]_vars
    /\ []((m_probes # <<>> /\ m_probes[1].st.type \in TerminalTypes)
            => /\ Len(m_probes) = 1
               /\ Len(m_yielded) = 1
               /\ m_pc \in {"yielded", "done"})

\* A stream opened on a message that had completed has yielded Executed
\* and has returned after its one probe.
C39_Witness ==
    /\ m_pc = "done"
    /\ Len(m_probes) = 1
    /\ m_probes[1].st.type = "Executed"
    /\ Len(m_yielded) = 1
    /\ m_yielded[1].st.type = "Executed"

\* C40: resolveRoute checks the hub-and-spoke predicate alone: it succeeds
\* for every route the predicate accepts, touching neither the registry nor
\* the cache, also when no chain adapter or deployment is registered for an
\* endpoint; every other operation on such a route fails with
\* UnsupportedRoute and invokes no adapter method.
C40_ResolveRouteChecksPredicateOnly ==
    \A s \in SlotIds :
        LET c == c_slots[s]
            unregistered ==
                supportsBridgeRoute(c.route)
                    /\ resolveBridgeRoute(c.route) = UnsupportedRoute
        IN /\ c.op = "resolveRoute" =>
                 /\ c.pc = (IF supportsBridgeRoute(c.route) THEN "done" ELSE "failed")
                 /\ c.pc = "failed" => c.result = UnsupportedRoute
                 /\ c.promise = NoPromise
           /\ (c.op \in ClientOps \ {"resolveRoute"} /\ unregistered
                 /\ c.pc \in {"done", "failed"}) =>
                 /\ c.pc = "failed"
                 /\ c.result = UnsupportedRoute
                 /\ c.method = "none"

\* resolveRoute has succeeded on a route to Base Sepolia, for which the
\* client holds the rejected promise of an earlier operation.
C40_Witness ==
    /\ c_slots[1].op = "resolveRoute"
    /\ c_slots[1].route = Route("solana:mainnet", "eip155:84532")
    /\ c_slots[1].pc = "done"
    /\ c_cache["solana:mainnet->eip155:84532"].settled = "rejected"
    /\ c_resolverCalls["solana:mainnet->eip155:84532"] = 1

=============================================================================
